---- MODULE Spec2Model ----
(***************************************************************************)
(* Model of the Matrix console (matrix_console.py, header.py, footer.py).  *)
(*                                                                         *)
(* Wall-clock time is counted in whole seconds.  Every read of the clock   *)
(* (time.time(), datetime.utcnow()) returns the value of `clock` at the    *)
(* moment of the read; between two reads the clock may advance.            *)
(* Elapsed times handed to the title animator are counted in units of      *)
(* 1/TimeDen second so that instants strictly inside a second exist.       *)
(* Strings that are indexed or measured are sequences of one-character     *)
(* strings.                                                                *)
(***************************************************************************)
EXTENDS Integers, Sequences, FiniteSets, TLC

\* ------------------------------------------------------------------ bounds
MaxTime == 26        \* the loop is observed while clock < MaxTime
MaxDrift == 1        \* seconds the clock may advance between two reads
MaxScanBlock == 1    \* seconds the blocking scan may take
MaxManual == 1       \* manual rescan keys pressed during a run
MaxBatch == 2        \* events delivered by one pygame.event.get()
TimeDen == 2         \* sub-second resolution of the title animator's input
MaxElapsed == 6      \* title animator: |elapsed| <= MaxElapsed seconds
MaxPeriod == 4       \* title animator: scan_interval in -1..MaxPeriod
MaxChoice == 2       \* random.choice draws among the first MaxChoice glyphs
RemDen == 4          \* countdown color: remaining is a multiple of 1/RemDen s
MaxRemaining == 23   \* countdown color: remaining in -2..MaxRemaining seconds
PosDen == 2          \* ticker: positions are multiples of 1/PosDen pixel
MaxFooterTime == 15  \* footer: frames are drawn while its clock < MaxFooterTime
MaxEdits == 1        \* footer: fields changed from outside between frames
ViewportPx == 4      \* footer: width of the small viewport, in pixels
TypeLen == 10        \* typing: length of the typed sentence
StoreHorizon == 2      \* store runs: ticks happen while the clock < StoreHorizon
MaxStoreOps == 3      \* store calls: number of calls in a sequence
MaxSaves == 2         \* save_json: number of saves started in a run
MaxTypeTime == 12    \* typing: the console counter is stepped while its clock < MaxTypeTime
MaxRevealTime == 30  \* title colors: frames are drawn while its clock <= MaxRevealTime ticks
MaxRemovals == 1     \* launcher: scripts removed from the directory while the chain runs

\* ------------------------------------------------- constants of the program
SCAN_INTERVAL == 21
SCAN_HOLD == 1
SCREEN_HEIGHT == 320
ROW_Y_START == 56
ROW_H == 20
TABLE_BOTTOM_MARGIN == 26

Max(a, b) == IF a >= b THEN a ELSE b
Min(a, b) == IF a <= b THEN a ELSE b

\* ------------------------------------------------------ scan source (nmcli)
NetA40 == [ssid |-> "home", signal |-> 40, security |-> "WPA2", bssid |-> "AA:BB"]
NetA70 == [ssid |-> "home2", signal |-> 70, security |-> "WPA2", bssid |-> "AA:BB"]
NetB == [ssid |-> "cafe", signal |-> 55, security |-> "OPEN", bssid |-> "CC:DD"]
NetNoAddr == [ssid |-> "<hidden>", signal |-> 10, security |-> "OPEN", bssid |-> ""]

\* What scan_nmcli can return: lists sorted descending by signal, and the
\* empty list when the command fails.
scan_nmcli == { <<>>, <<NetA40>>, <<NetA70, NetB>>, <<NetB, NetNoAddr>> }

\* ------------------------------------------------------------------ stores
EmptyStore == [k \in {} |-> 0]

Put(store, key, val) ==
    [k \in (DOMAIN store) \cup {key} |-> IF k = key THEN val ELSE store[k]]

\* variant: a re-merge stamps first_seen again
MergeOneRestamps(discovered, n, ts) ==
    IF n.bssid = "" THEN discovered
    ELSE Put(discovered, n.bssid,
             [ssid |-> n.ssid, first_seen |-> ts, last_seen |-> ts,
              last_signal |-> n.signal, security |-> n.security])

\* update_discovered, lines 116-131: the body of the loop, for one record
MergeOne(discovered, n, ts) ==
    LET bssid == n.bssid
    IN IF bssid = "" THEN discovered
       ELSE IF bssid \notin DOMAIN discovered
            THEN Put(discovered, bssid,
                     [ssid |-> n.ssid, first_seen |-> ts,
                      last_seen |-> ts, last_signal |-> n.signal,
                      security |-> n.security])
            ELSE Put(discovered, bssid,
                     [ssid |-> n.ssid,
                      first_seen |-> discovered[bssid].first_seen,
                      last_seen |-> ts, last_signal |-> n.signal,
                      security |-> n.security])

\* update_discovered, lines 113-132; ts is the clock read at line 114
RECURSIVE update_discovered(_, _, _)
update_discovered(discovered, nets, ts) ==
    IF nets = <<>> THEN discovered
    ELSE update_discovered(MergeOne(discovered, Head(nets), ts), Tail(nets), ts)

\* variant: the lab document is written once per inserted entry
EnsureLabEntriesSavesEach(discovered, lab, labFile) ==
    LET missing == (DOMAIN discovered) \ (DOMAIN lab)
        lab1 == [k \in (DOMAIN lab) \cup missing |->
                    IF k \in DOMAIN lab THEN lab[k]
                    ELSE [ssid |-> discovered[k].ssid, active |-> FALSE]]
    IN [lab |-> lab1,
        file |-> IF missing # {} THEN lab1 ELSE labFile,
        saves |-> Cardinality(missing)]

\* variant: the entries are inserted but the lab document is not written
EnsureLabEntriesNoSave(discovered, lab, labFile) ==
    LET missing == (DOMAIN discovered) \ (DOMAIN lab)
        lab1 == [k \in (DOMAIN lab) \cup missing |->
                    IF k \in DOMAIN lab THEN lab[k]
                    ELSE [ssid |-> discovered[k].ssid, active |-> FALSE]]
    IN [lab |-> lab1, file |-> labFile, saves |-> 0]

\* ensure_lab_entries, lines 134-145.
\* Returns the lab mapping, the lab document on disk and the number of saves.
ensure_lab_entries(discovered, lab, labFile) ==
    LET missing == (DOMAIN discovered) \ (DOMAIN lab)
        lab1 == [k \in (DOMAIN lab) \cup missing |->
                    IF k \in DOMAIN lab THEN lab[k]
                    ELSE [ssid |-> discovered[k].ssid, active |-> FALSE]]
        changed == missing # {}
    IN [lab |-> lab1,
        file |-> IF changed THEN lab1 ELSE labFile,
        saves |-> IF changed THEN 1 ELSE 0]

\* variant: the flag is set instead of flipped
ToggleLabDeviceSetsActive(bssid, discovered, lab) ==
    LET entry == IF bssid \in DOMAIN lab THEN lab[bssid]
                 ELSE [ssid |-> IF bssid \in DOMAIN discovered
                                THEN discovered[bssid].ssid ELSE "",
                       active |-> FALSE]
        lab1 == Put(lab, bssid, [entry EXCEPT !.active = TRUE])
    IN [lab |-> lab1, file |-> lab1, returned |-> lab1]

\* variant: a new entry is created with the flag clear
ToggleLabDeviceCreatesInactive(bssid, discovered, lab) ==
    LET lab1 == IF bssid \in DOMAIN lab
                THEN Put(lab, bssid,
                         [lab[bssid] EXCEPT !.active = ~lab[bssid].active])
                ELSE Put(lab, bssid,
                         [ssid |-> IF bssid \in DOMAIN discovered
                                   THEN discovered[bssid].ssid ELSE "",
                          active |-> FALSE])
    IN [lab |-> lab1, file |-> lab1, returned |-> lab1]

\* toggle_lab_device, lines 147-159.  Returns the lab mapping after the
\* call, the lab document written at line 157 and the value returned at
\* line 159 (the mapping itself).
toggle_lab_device(bssid, discovered, lab) ==
    LET entry == IF bssid \in DOMAIN lab THEN lab[bssid]
                 ELSE [ssid |-> IF bssid \in DOMAIN discovered
                                THEN discovered[bssid].ssid ELSE "",
                       active |-> FALSE]
        lab1 == Put(lab, bssid, [entry EXCEPT !.active = ~entry.active])
    IN [lab |-> lab1, file |-> lab1, returned |-> lab1]

\* variant: the discovered document is written before the merge
ScanStepsSaveFirst(discovered, lab, labFile, nets, ts) ==
    LET d1 == update_discovered(discovered, nets, ts)
        e1 == ensure_lab_entries(d1, lab, labFile)
    IN [nets |-> nets, discovered |-> d1, disk_discovered |-> discovered,
        lab |-> e1.lab, disk_lab |-> e1.file,
        ops |-> <<"scan_nmcli", "save_discovered", "update_discovered",
                  "ensure_lab_entries">>]

\* variant: the default lab entries are not added after the scan
ScanStepsNoEnsure(discovered, lab, labFile, nets, ts) ==
    LET d1 == update_discovered(discovered, nets, ts)
    IN [nets |-> nets, discovered |-> d1, disk_discovered |-> d1,
        lab |-> lab, disk_lab |-> labFile,
        ops |-> <<"scan_nmcli", "update_discovered", "save_discovered">>]

\* variant: a scan that finds nothing empties the discovered store
ScanStepsEmptyClears(discovered, lab, labFile, nets, ts) ==
    LET d1 == IF nets = <<>> THEN EmptyStore
              ELSE update_discovered(discovered, nets, ts)
        e1 == ensure_lab_entries(d1, lab, labFile)
    IN [nets |-> nets, discovered |-> d1, disk_discovered |-> d1,
        lab |-> e1.lab, disk_lab |-> e1.file,
        ops |-> <<"scan_nmcli", "update_discovered", "save_discovered",
                  "ensure_lab_entries">>]

\* The scan and the store steps that follow it, in program order (lines
\* 346-349, 378-381, 422-425).  nets is what scan_nmcli returned and ts the
\* clock after it returned.
ScanSteps(discovered, lab, labFile, nets, ts) ==
    LET d1 == update_discovered(discovered, nets, ts)
        e1 == ensure_lab_entries(d1, lab, labFile)
    IN [nets |-> nets, discovered |-> d1, disk_discovered |-> d1,
        lab |-> e1.lab, disk_lab |-> e1.file,
        ops |-> <<"scan_nmcli", "update_discovered", "save_discovered",
                  "ensure_lab_entries">>]


\* ------------------------------------------------------------- movie line
Chars(n) == SubSeq(<<"W", "a", "k", "e", " ", "u", "p">>, 1, n)

\* Quotes of matrix_movie_singleline.LINES, cut to their first characters.
LINES == { Chars(2), Chars(3) }

\* get_movie_line: random.choice(LINES)
get_movie_line == LINES

\* ------------------------------------------------------------------- state
VARIABLES
    clock,                 \* the wall clock
    pc,                    \* "tick" | "events" | "done": position in main()
    running,
    now,                   \* main(): now captured at the top of the iteration
    cycle_start, scanning, scanning_until, remaining,
    nets, discovered, lab_devices,
    disk_discovered, disk_lab,       \* the two JSON documents
    current_movie_line, movie_visible_len, last_movie_type_time,
    frame,                 \* what the last draw_console call was given / read
    row_map,
    ops,                   \* operations performed by the last step, in order
    hist,                  \* history of scans, for stating the properties
    handled,               \* events of the current batch already handled
    manualLeft,            \* rescan keys the operator may still press
    env,                   \* the environment of the run: what the scan source
                           \* can return, the quotes, the click heights, and
                           \* how long the run is observed
    title,                 \* title animator harness (see TitleSpec)
    unit                   \* harness of the components exercised on their own
                           \* (countdown color, footer, typing, save_json)

vars == <<clock, pc, running, now, cycle_start, scanning, scanning_until,
          remaining, nets, discovered, lab_devices, disk_discovered, disk_lab,
          current_movie_line, movie_visible_len, last_movie_type_time,
          frame, row_map, ops, hist, handled, manualLeft, env, title, unit>>

loopVars == <<clock, pc, running, now, cycle_start, scanning, scanning_until,
          remaining, nets, discovered, lab_devices, disk_discovered, disk_lab,
          current_movie_line, movie_visible_len, last_movie_type_time,
          frame, row_map, ops, hist, handled, manualLeft, env>>

NoFrame == [drawn |-> FALSE, scanning |-> FALSE, remaining |-> 0,
            cycle_start |-> 0, scanning_until |-> 0, ctrlNow |-> 0,
            hdrNow |-> 0, cursorNow |-> 0, footNow |-> 0,
            rows |-> <<>>, clickY |-> 0 - 1]
TitleIdle == [mode |-> "idle"]
UnitIdle == [mode |-> "idle"]

\* Heights of pointer clicks: above the table, rows 0, 1 and 2, and the
\* band below the table.
ClickYs == {40, 56, 79, 96, 294}

\* A scan that finds more networks than the table has rows.
CrowdNet(i) ==
    [ssid |-> "net", signal |-> 99 - i, security |-> "WPA2",
     bssid |-> <<"N1", "N2", "N3", "N4", "N5", "N6", "N7", "N8", "N9", "N10",
                 "N11", "N12">>[i]]

Crowd == [i \in 1..12 |-> CrowdNet(i)]

\* The environment of the scan-cycle runs: every scan succeeds and every
\* record carries an address, one quote, clicks above the table.
CycleEnv == [results |-> {r \in scan_nmcli : r # <<>> /\ r[Len(r)].bssid # ""},
             lines |-> {Chars(2)},
             clickYs |-> {40},
             horizon |-> MaxTime,
             docs |-> {[discovered |-> EmptyStore, lab |-> EmptyStore]}]

\* Documents a previous run can have left on disk, as load_json reads them
\* (a missing or unreadable document reads as the empty mapping).
OldEntry(ssid, signal) ==
    [ssid |-> ssid, first_seen |-> 0 - 5, last_seen |-> 0 - 2,
     last_signal |-> signal, security |-> "WPA2"]

LoadedDocs ==
    { [discovered |-> EmptyStore, lab |-> EmptyStore],
      [discovered |-> Put(EmptyStore, "AA:BB", OldEntry("home", 30)),
       lab |-> Put(EmptyStore, "AA:BB", [ssid |-> "home", active |-> TRUE])],
      [discovered |-> Put(EmptyStore, "CC:DD", OldEntry("cafe", 20)),
       lab |-> EmptyStore],
      [discovered |-> EmptyStore,
       lab |-> Put(EmptyStore, "EE:FF", [ssid |-> "", active |-> TRUE])] }

\* The environment of the store runs: any scan result, any documents on
\* disk, clicks on the table rows, a short run.
StoreEnv == [results |-> scan_nmcli,
             lines |-> {Chars(2)},
             clickYs |-> {40, 79},
             horizon |-> StoreHorizon,
             docs |-> LoadedDocs]

\* main(), lines 342-363: load the stores, the initial scan, the loop
\* state.  The clock is 0 when the program starts.
StartLoop(e) ==
    \E result \in e.results, dScan \in 0..MaxScanBlock, line \in e.lines,
       doc \in e.docs :
      LET ts == dScan
          s == ScanSteps(doc.discovered, doc.lab, doc.lab, result, ts)
      IN /\ clock = ts
         /\ pc = "tick"
         /\ running = TRUE
         /\ now = ts
         /\ cycle_start = ts
         /\ scanning = FALSE
         /\ scanning_until = 0
         /\ remaining = SCAN_INTERVAL
         /\ nets = s.nets
         /\ discovered = s.discovered
         /\ lab_devices = s.lab
         /\ disk_discovered = s.disk_discovered
         /\ disk_lab = s.disk_lab
         /\ current_movie_line = line
         /\ movie_visible_len = 0
         /\ last_movie_type_time = ts
         /\ frame = NoFrame
         /\ row_map = EmptyStore
         /\ ops = s.ops \o <<"cycle_start">>
         /\ hist = [kind |-> "init", at |-> 0, doneAt |-> ts,
                    spaced |-> TRUE, wasScanning |-> FALSE,
                    shownBefore |-> 0, shown |-> 0]
         /\ handled = 0
         /\ manualLeft = MaxManual
         /\ env = [e EXCEPT !.docs = {doc}]
         /\ title = TitleIdle
         /\ unit = UnitIdle

Init == StartLoop(CycleEnv)

\* main(), lines 368-372: typing animation of the movie line.
MOVIE_TYPE_DELAY_CS == 5     \* MOVIE_TYPE_DELAY = 0.05 s, in hundredths

\* variant: the counter does not stop at the end of the line
MovieTypingNoStop(visible, line, last, t) ==
    IF (t - last) * 100 >= MOVIE_TYPE_DELAY_CS
    THEN [visible |-> visible + 1, last |-> t]
    ELSE [visible |-> visible, last |-> last]

MovieTyping(visible, line, last, t) ==
    IF visible < Len(line) /\ (t - last) * 100 >= MOVIE_TYPE_DELAY_CS
    THEN [visible |-> visible + 1, last |-> t]
    ELSE [visible |-> visible, last |-> last]

\* --- variants of ScanTiming used to test the properties
\* the scan window is not held open: scanning_until = now
ScanTimingNoHold(isScanning, until, cs, t) ==
    IF isScanning
    THEN [remaining |-> 0, doScan |-> t >= until,
          scanning |-> ~(t >= until), scanning_until |-> until]
    ELSE LET elapsed == t - cs
             rem == SCAN_INTERVAL - elapsed
         IN IF rem <= 0
            THEN [remaining |-> 0, doScan |-> FALSE,
                  scanning |-> TRUE, scanning_until |-> t]
            ELSE [remaining |-> rem, doScan |-> FALSE,
                  scanning |-> FALSE, scanning_until |-> until]

\* the countdown is measured from scanning_until instead of cycle_start
ScanTimingWrongBase(isScanning, until, cs, t) ==
    IF isScanning
    THEN [remaining |-> 0, doScan |-> t >= until,
          scanning |-> ~(t >= until), scanning_until |-> until]
    ELSE LET elapsed == t - until
             rem == SCAN_INTERVAL - elapsed
         IN IF rem <= 0
            THEN [remaining |-> 0, doScan |-> FALSE,
                  scanning |-> TRUE, scanning_until |-> t + SCAN_HOLD]
            ELSE [remaining |-> rem, doScan |-> FALSE,
                  scanning |-> FALSE, scanning_until |-> until]

\* main(), lines 375-396: the scan timing decision of one iteration.
\* doScan: the post-scan steps of lines 378-389 run in this iteration.
ScanTiming(isScanning, until, cs, t) ==
    IF isScanning
    THEN [remaining |-> 0, doScan |-> t >= until,
          scanning |-> ~(t >= until), scanning_until |-> until]
    ELSE LET elapsed == t - cs
             rem == SCAN_INTERVAL - elapsed
         IN IF rem <= 0
            THEN [remaining |-> 0, doScan |-> FALSE,
                  scanning |-> TRUE, scanning_until |-> t + SCAN_HOLD]
            ELSE [remaining |-> rem, doScan |-> FALSE,
                  scanning |-> FALSE, scanning_until |-> until]

\* variant: the countdown is also restarted when it expires
CycleStartOnExpiry(d, cs, t, ts) ==
    IF d.doScan THEN ts ELSE IF d.scanning /\ d.scanning_until = t + SCAN_HOLD
                             THEN t ELSE cs

\* main(), lines 375-396: cycle_start after the scan timing block; the only
\* assignment is line 383, with the clock read after the scan steps.
CycleStartAfter(d, cs, t, ts) ==
    IF d.doScan THEN ts ELSE cs

\* variant: the manual path shows the scanning phase
AfterRescanShowsScanning(ts) ==
    [cycle_start |-> ts, scanning |-> TRUE, scanning_until |-> ts + SCAN_HOLD,
     movie_visible_len |-> 0, last_movie_type_time |-> ts]

\* variant: the manual path leaves the typed characters of the line shown
AfterRescanKeepsTyped(ts) ==
    [cycle_start |-> ts, scanning |-> FALSE, scanning_until |-> 0,
     movie_visible_len |-> movie_visible_len, last_movie_type_time |-> ts]

\* main(), lines 426-432: the loop state after a manual rescan.
AfterRescan(ts) ==
    [cycle_start |-> ts, scanning |-> FALSE, scanning_until |-> 0,
     movie_visible_len |-> 0, last_movie_type_time |-> ts]

\* draw_console, lines 267-299: the rows drawn and the row -> bssid map.
max_rows == (SCREEN_HEIGHT - ROW_Y_START - TABLE_BOTTOM_MARGIN) \div ROW_H

\* line 267: nets[:max_rows], the records that get a table row
DrawnRows(ns) == SubSeq(ns, 1, Min(Len(ns), max_rows))

\* variant: the row of a click is counted from one
RowIndexFromOne(y) == (y - ROW_Y_START) \div ROW_H + 1

\* line 436: the row a click at height y falls in
RowIndex(y) == (y - ROW_Y_START) \div ROW_H

RowMap(ns) ==
    [i \in {j \in 0..(Min(Len(ns), max_rows) - 1) : ns[j + 1].bssid # ""}
        |-> ns[i + 1].bssid]

\* variant: draw_console hands the loop's now to every animator
ClockReadsShared(t, tEnd, dDraw, dCur, dFoot) ==
    [ctrlNow |-> t, hdrNow |-> t, cursorNow |-> t, footNow |-> t,
     end |-> tEnd + dDraw + dCur + dFoot]

\* variant: the footer is refreshed before the header is drawn
ClockReadsFooterFirst(t, tEnd, dDraw, dCur, dFoot) ==
    [ctrlNow |-> t, hdrNow |-> tEnd + dDraw + dCur + dFoot,
     cursorNow |-> tEnd + dDraw + dCur + dFoot, footNow |-> tEnd + dDraw,
     end |-> tEnd + dDraw + dCur + dFoot]

\* The clock values one iteration works with: main's now (line 366), the
\* now draw_console captures and hands to draw_header (line 215), the read
\* for the movie-line cursor (line 241) and the read of footer._refresh_state
\* (footer.py line 103).  t is main's now, tEnd the clock when draw_console
\* is called, and dDraw, dCur, dFoot the time passing before each read.
ClockReads(t, tEnd, dDraw, dCur, dFoot) ==
    [ctrlNow |-> t, hdrNow |-> tEnd + dDraw,
     cursorNow |-> tEnd + dDraw + dCur,
     footNow |-> tEnd + dDraw + dCur + dFoot,
     end |-> tEnd + dDraw + dCur + dFoot]

\* One iteration of the loop up to and including draw_console
\* (lines 366-414).
Tick ==
    /\ pc = "tick"
    /\ running
    /\ clock < env.horizon
    /\ \E result \in env.results \cup {<<>>}, dScan \in 0..MaxScanBlock,
          line \in env.lines,
          dDraw \in 0..MaxDrift, dCur \in 0..MaxDrift, dFoot \in 0..MaxDrift :
        dDraw + dCur + dFoot <= MaxDrift /\
        LET t == clock
            m == MovieTyping(movie_visible_len, current_movie_line,
                             last_movie_type_time, t)
            d == ScanTiming(scanning, scanning_until, cycle_start, t)
            ts == t + dScan
            s == ScanSteps(discovered, lab_devices, disk_lab, result, ts)
            cs1 == CycleStartAfter(d, cycle_start, t, ts)
            r == ClockReads(t, IF d.doScan THEN ts ELSE t, dDraw, dCur, dFoot)
        IN /\ IF d.doScan THEN result \in env.results
              ELSE dScan = 0 /\ result = <<>> /\ line = current_movie_line
           /\ now' = t
           /\ remaining' = d.remaining
           /\ scanning' = d.scanning
           /\ scanning_until' = d.scanning_until
           /\ cycle_start' = cs1
           /\ nets' = IF d.doScan THEN s.nets ELSE nets
           /\ discovered' = IF d.doScan THEN s.discovered ELSE discovered
           /\ disk_discovered' = IF d.doScan THEN s.disk_discovered
                                 ELSE disk_discovered
           /\ lab_devices' = IF d.doScan THEN s.lab ELSE lab_devices
           /\ disk_lab' = IF d.doScan THEN s.disk_lab ELSE disk_lab
           /\ current_movie_line' = IF d.doScan THEN line
                                    ELSE current_movie_line
           /\ movie_visible_len' = IF d.doScan THEN 0 ELSE m.visible
           /\ last_movie_type_time' = IF d.doScan THEN t ELSE m.last
           /\ frame' = [drawn |-> TRUE, scanning |-> d.scanning,
                        remaining |-> d.remaining, cycle_start |-> cs1,
                        scanning_until |-> d.scanning_until,
                        ctrlNow |-> r.ctrlNow, hdrNow |-> r.hdrNow,
                        cursorNow |-> r.cursorNow, footNow |-> r.footNow,
                        rows |-> DrawnRows(nets'), clickY |-> 0 - 1]
           /\ row_map' = RowMap(nets')
           /\ ops' = (IF d.doScan
                      THEN s.ops \o <<"cycle_start", "scanning_off">>
                      ELSE IF d.scanning /\ ~scanning THEN <<"scanning_on">>
                      ELSE <<>>) \o <<"draw_console">>
           /\ hist' = LET shown1 == IF d.scanning THEN Min(hist.shown + 1, 2)
                                    ELSE 0
                      IN IF d.doScan
                         THEN [kind |-> "auto", at |-> t, doneAt |-> ts,
                               spaced |-> t - hist.at >= SCAN_INTERVAL,
                               wasScanning |-> scanning,
                               shownBefore |-> hist.shown, shown |-> shown1]
                         ELSE [hist EXCEPT !.shown = shown1]
           /\ clock' = r.end
           /\ handled' = 0
           /\ pc' = "events"
           /\ UNCHANGED <<running, manualLeft, env, title, unit>>

\* lines 418-420: a quit key.
KeyQuit ==
    /\ pc = "events"
    /\ handled < MaxBatch
    /\ running' = FALSE
    /\ handled' = handled + 1
    /\ ops' = <<"quit">>
    /\ UNCHANGED <<clock, pc, now, cycle_start, scanning, scanning_until,
                   remaining, nets, discovered, lab_devices, disk_discovered,
                   disk_lab, current_movie_line, movie_visible_len,
                   last_movie_type_time, frame, row_map, hist, manualLeft,
                   env, title, unit>>

\* lines 421-432: the manual rescan key.
KeyRescan ==
    /\ pc = "events"
    /\ handled < MaxBatch
    /\ manualLeft > 0
    /\ \E result \in env.results, dScan \in 0..MaxScanBlock,
          line \in env.lines :
        LET ts == clock + dScan
            s == ScanSteps(discovered, lab_devices, disk_lab, result, ts)
            a == AfterRescan(ts)
        IN /\ nets' = s.nets
           /\ discovered' = s.discovered
           /\ disk_discovered' = s.disk_discovered
           /\ lab_devices' = s.lab
           /\ disk_lab' = s.disk_lab
           /\ cycle_start' = a.cycle_start
           /\ scanning' = a.scanning
           /\ scanning_until' = a.scanning_until
           /\ current_movie_line' = line
           /\ movie_visible_len' = a.movie_visible_len
           /\ last_movie_type_time' = a.last_movie_type_time
           /\ ops' = s.ops \o <<"cycle_start", "scanning_off">>
           /\ hist' = [kind |-> "manual", at |-> clock, doneAt |-> ts,
                       spaced |-> clock - hist.at >= SCAN_INTERVAL,
                       wasScanning |-> scanning,
                       shownBefore |-> hist.shown, shown |-> 0]
           /\ clock' = ts
    /\ handled' = handled + 1
    /\ manualLeft' = manualLeft - 1
    /\ UNCHANGED <<pc, running, now, remaining, frame, row_map, env, title, unit>>

\* lines 433-441: a left click at height y.
Click ==
    /\ pc = "events"
    /\ handled < MaxBatch
    /\ \E y \in env.clickYs :
        LET inTable == ROW_Y_START <= y /\ y < SCREEN_HEIGHT - TABLE_BOTTOM_MARGIN
            row_index == RowIndex(y)
            hit == inTable /\ row_index \in DOMAIN row_map
            r == toggle_lab_device(row_map[row_index], discovered, lab_devices)
        IN /\ lab_devices' = IF hit THEN r.lab ELSE lab_devices
           /\ disk_lab' = IF hit THEN r.file ELSE disk_lab
           /\ ops' = IF hit THEN <<"toggle_lab_device", "save_lab">>
                     ELSE <<"click_ignored">>
           /\ frame' = [frame EXCEPT !.clickY = y]
    /\ handled' = handled + 1
    /\ UNCHANGED <<clock, pc, running, now, cycle_start, scanning,
                   scanning_until, remaining, nets, discovered,
                   disk_discovered, current_movie_line, movie_visible_len,
                   last_movie_type_time, row_map, hist, manualLeft,
                   env, title, unit>>

\* variant: the loop goes on whatever the flag is
WhileTestIgnoresQuit(isRunning) == "tick"

\* line 365, `while running:`: where the loop goes after an iteration
WhileTest(isRunning) == IF isRunning THEN "tick" ELSE "done"

\* lines 443 and 365: the batch is exhausted, clock.tick(20) sleeps, and
\* the loop condition is tested; lines 445-446 when it fails.
EndFrame ==
    /\ pc = "events"
    /\ \E dSleep \in 0..MaxDrift : clock' = clock + dSleep
    /\ pc' = WhileTest(running)
    /\ ops' = <<"clock_tick">>
    /\ frame' = NoFrame
    /\ handled' = 0
    /\ UNCHANGED <<running, now, cycle_start, scanning, scanning_until,
                   remaining, nets, discovered, lab_devices, disk_discovered,
                   disk_lab, current_movie_line, movie_visible_len,
                   last_movie_type_time, row_map, hist, manualLeft, env,
                   title, unit>>

Next == Tick \/ KeyQuit \/ KeyRescan \/ Click \/ EndFrame

Spec == Init /\ [][Next]_vars

\* The environment of the click runs: a table with an addressless row, a
\* table with more networks than rows, clicks on and around the rows.
ClickEnv == [results |-> {<<NetB, NetNoAddr>>, Crowd},
             lines |-> {Chars(2)},
             clickYs |-> {79, 256, 276, 294},
             horizon |-> StoreHorizon,
             docs |-> {[discovered |-> EmptyStore, lab |-> EmptyStore]}]

ClickInit == StartLoop(ClickEnv)

ClickSpec == ClickInit /\ [][Next]_vars

\* The same program in the environment of the store runs.
StoreInit == StartLoop(StoreEnv)

StoreLoopSpec == StoreInit /\ [][Next]_vars

\* The same program with two quotes to choose from and one scan result, over
\* a whole cycle.
MovieEnv == [results |-> {<<NetA40>>},
             lines |-> LINES,
             clickYs |-> {40},
             horizon |-> MaxTime,
             docs |-> {[discovered |-> EmptyStore, lab |-> EmptyStore]}]

MovieInit == StartLoop(MovieEnv)

MovieSpec == MovieInit /\ [][Next]_vars

\* ======================================================================
\* header.py: the title animator
\* ======================================================================
\* JAP_CHARS, header.py line 28
JAP_CHARS ==
    <<"A", "B", "C", "D", "E", "F", "G", "H", "I", "J", "K", "L", "M", "N",
      "O", "P", "Q", "R", "S", "T", "U", "V", "W", "X", "Y", "Z", "0", "1",
      "2", "3", "4", "5", "6", "7", "8", "9", "#", "$", "%", "&", "@", "\\",
      "/", "_", "<", ">", "[", "]", "{", "}", "(", ")", "=", "-", "_">>

\* Python's float %: the result has the sign of the divisor.  A zero
\* divisor raises ZeroDivisionError, which the callers model explicitly.
PyMod(a, b) == IF b > 0 THEN a % b ELSE -((-a) % (-b))

Returned(text, progress) == [text |-> text, progress |-> progress, err |-> "none"]
Raised(what) == [text |-> <<>>, progress |-> -1, err |-> what]

\* variant: only negative periods are treated as degenerate
DegenerateNegativeOnly(scan_interval) == scan_interval < 0

\* _animate_title_text, lines 45-46: period <= 1
Degenerate(scan_interval) == scan_interval <= 1

\* variant: the position in the cycle is taken modulo the reveal window
CycleTModReveal(cycle_elapsed, period, reveal) == PyMod(cycle_elapsed, reveal)

\* _animate_title_text, line 50: cycle_t = cycle_elapsed % period
CycleT(cycle_elapsed, period, reveal) == PyMod(cycle_elapsed, period)

\* _animate_title_text, line 58; int() of a non-negative quotient is its floor
RevealProgress(cycle_t, reveal, length) ==
    Max(0, Min(length, (cycle_t * length) \div reveal))

\* variant: a space that is not yet revealed is scrambled like any character
AnimateTitleScramblesSpaces(full_text, cycle_elapsed, scan_interval, rnd) ==
    LET period == scan_interval * TimeDen
        reveal == period - TimeDen
        length == Len(full_text)
    IN IF Degenerate(scan_interval) THEN Returned(full_text, length)
       ELSE LET cycle_t == CycleT(cycle_elapsed, period, reveal)
                progress == RevealProgress(cycle_t, reveal, length)
            IN IF cycle_t >= reveal THEN Returned(full_text, length)
               ELSE IF length = 0 THEN Returned(full_text, 0)
               ELSE Returned(
                      [i \in 1..length |->
                          IF i - 1 < progress THEN full_text[i]
                          ELSE JAP_CHARS[rnd[i]]],
                      progress)

\* _animate_title_text, lines 38-69.  cycle_elapsed is in units of 1/TimeDen
\* second, scan_interval in seconds; rnd[i] is the index random.choice draws
\* for position i.
_animate_title_text(full_text, cycle_elapsed, scan_interval, rnd) ==
    LET period == scan_interval * TimeDen
        reveal == period - TimeDen
        length == Len(full_text)
    IN IF Degenerate(scan_interval) THEN Returned(full_text, length)
       ELSE IF period = 0 THEN Raised("ZeroDivisionError")
       ELSE LET cycle_t == CycleT(cycle_elapsed, period, reveal)
                progress == RevealProgress(cycle_t, reveal, length)
            IN IF cycle_t >= reveal THEN Returned(full_text, length)
               ELSE IF length = 0 THEN Returned(full_text, 0)
               ELSE IF reveal = 0 THEN Raised("ZeroDivisionError")
               ELSE Returned(
                      [i \in 1..length |->
                          IF full_text[i] = " " THEN " "
                          ELSE IF i - 1 < progress THEN full_text[i]
                          ELSE JAP_CHARS[rnd[i]]],
                      progress)

\* Titles tried: the empty title, one with a space and glyphs of JAP_CHARS,
\* and the start of TITLE_TEXT.
TitleTexts == { <<>>, <<"A", " ", "B">>, <<"~", "/", "M">> }

ElapsedRange == (0 - MaxElapsed * TimeDen)..(MaxElapsed * TimeDen)

NoResult == [text |-> <<>>, progress |-> 0, err |-> "not called"]

\* The loop is not running while the animator is exercised on its own.
LoopParked ==
    /\ clock = 0 /\ pc = "done" /\ running = FALSE /\ now = 0
    /\ cycle_start = 0 /\ scanning = FALSE /\ scanning_until = 0
    /\ remaining = 0 /\ nets = <<>> /\ discovered = EmptyStore
    /\ lab_devices = EmptyStore /\ disk_discovered = EmptyStore
    /\ disk_lab = EmptyStore /\ current_movie_line = <<>>
    /\ movie_visible_len = 0 /\ last_movie_type_time = 0
    /\ frame = NoFrame /\ row_map = EmptyStore /\ ops = <<>>
    /\ hist = [kind |-> "none", at |-> 0, doneAt |-> 0, spaced |-> TRUE,
               wasScanning |-> FALSE, shownBefore |-> 0, shown |-> 0]
    /\ handled = 0 /\ manualLeft = 0
    /\ env = [results |-> {}, lines |-> {}, clickYs |-> {}, horizon |-> 0,
              docs |-> {}]

\* A title and a cycle length; no frame has been animated yet.
TitleInit ==
    /\ LoopParked
    /\ unit = UnitIdle
    /\ \E x \in TitleTexts, L \in (0 - 1)..MaxPeriod :
          title = [mode |-> "run", full_text |-> x, scan_interval |-> L,
                   e |-> 0 - MaxElapsed * TimeDen, out |-> NoResult,
                   prevE |-> 0, prevProgress |-> 0, calls |-> 0]

\* One frame: draw_header line 178 calls the animator with the elapsed time
\* of the frame, which is not before the elapsed time of the frame before.
AnimateTitle ==
    /\ title.mode = "run"
    /\ \E e \in ElapsedRange,
          rnd \in [1..Len(title.full_text) -> 1..MaxChoice] :
          /\ e >= title.e
          /\ title' = [title EXCEPT
                         !.e = e,
                         !.out = _animate_title_text(title.full_text, e,
                                                     title.scan_interval, rnd),
                         !.prevE = title.e,
                         !.prevProgress = title.out.progress,
                         !.calls = Min(@ + 1, 2)]
    /\ UNCHANGED <<loopVars, unit>>

TitleNext == AnimateTitle

TitleSpec == TitleInit /\ [][TitleNext]_vars

\* ======================================================================
\* Properties of the scan cycle (checked under Spec)
\* ======================================================================
Range(q) == {q[i] : i \in 1..Len(q)}
Count(q, x) == Cardinality({i \in 1..Len(q) : q[i] = x})

\* The last step performed a scan (the startup counts as a step).
ScanStep == "scan_nmcli" \in Range(ops)
AutoScanDone == ScanStep /\ hist.kind = "auto"
ManualScanDone == ScanStep /\ hist.kind = "manual"
AtStartup == ScanStep /\ hist.kind = "init"

PostScanOps == <<"scan_nmcli", "update_discovered", "save_discovered",
                 "ensure_lab_entries", "cycle_start", "scanning_off">>

\* The stores right after the steps that follow a scan: every record of the
\* scan is merged with the time of this scan, the discovered document is the
\* merged mapping, and every discovered key has a lab entry, which is saved.
StoresAfterScan ==
    /\ \A i \in 1..Len(nets) :
          nets[i].bssid # "" =>
              /\ nets[i].bssid \in DOMAIN discovered
              /\ discovered[nets[i].bssid].last_seen = hist.doneAt
    /\ disk_discovered = discovered
    /\ DOMAIN discovered \subseteq DOMAIN lab_devices
    /\ disk_lab = lab_devices

\* C1: the scanning flag is raised only by a tick in COUNTDOWN whose
\* remaining = SCAN_INTERVAL - (now - cycle_start) is <= 0; that tick sets
\* scan_until = now + 1 and reports remaining = 0; and every frame rendered
\* with the scanning flag has scan_until - 1 <= now < scan_until.
C1_ScanningWindow ==
    /\ [](frame.drawn /\ frame.scanning =>
            /\ frame.scanning_until - SCAN_HOLD <= frame.ctrlNow
            /\ frame.ctrlNow < frame.scanning_until)
    /\ [][(~scanning /\ scanning') =>
            /\ pc = "tick"
            /\ cycle_start' = cycle_start
            /\ SCAN_INTERVAL - (now' - cycle_start) <= 0
            /\ scanning_until' = now' + SCAN_HOLD
            /\ remaining' = 0
            /\ frame'.drawn /\ frame'.scanning /\ frame'.remaining = 0]_vars

C1_Witness ==
    /\ frame.drawn /\ frame.scanning
    /\ "scanning_on" \in Range(ops)
    /\ scanning_until = now + SCAN_HOLD

\* C2 as stated: an automatic scan happens only on a tick in SCANNING with
\* now >= scan_until, after a frame was rendered with the scanning flag, the
\* steps run in the stated order, and cycle_start is reset to the tick's now.
C2_Original ==
    AutoScanDone =>
        /\ hist.wasScanning /\ now >= scanning_until
        /\ hist.shownBefore >= 1
        /\ ops = PostScanOps \o <<"draw_console">>
        /\ StoresAfterScan
        /\ cycle_start = now
        /\ ~scanning

\* C2 (amended): as C2, except that cycle_start is reset to the clock read
\* after the blocking scan and the store steps, which is >= the tick's now.
C2_AutoScan ==
    AutoScanDone =>
        /\ hist.wasScanning /\ now >= scanning_until
        /\ hist.shownBefore >= 1
        /\ ops = PostScanOps \o <<"draw_console">>
        /\ StoresAfterScan
        /\ cycle_start = hist.doneAt /\ cycle_start >= now
        /\ ~scanning /\ ~frame.scanning

C2_Witness ==
    /\ AutoScanDone
    /\ cycle_start > now
    /\ Cardinality(DOMAIN lab_devices) = 2

\* C3: a manual rescan key, in either phase, performs scan, merge, persist,
\* ensure-defaults and resets cycle_start at once; afterwards the phase is
\* COUNTDOWN, and the manual path never raises the scanning flag.
C3_ManualRescan ==
    /\ [](ManualScanDone =>
            /\ ops = PostScanOps
            /\ StoresAfterScan
            /\ cycle_start = hist.doneAt /\ cycle_start = clock
            /\ ~scanning)
    /\ [][pc = "events" => (scanning' => scanning)]_vars

C3_Witness ==
    /\ ManualScanDone
    /\ hist.wasScanning
    /\ frame.scanning

C3_WitnessCountdown ==
    /\ ManualScanDone
    /\ ~hist.wasScanning
    /\ frame.remaining > 0

\* C4 as stated: a frame rendered without the scanning flag is given
\* remaining = SCAN_INTERVAL - (now - cycle_start), a frame rendered with it
\* is given remaining = 0.
C4_Original ==
    frame.drawn =>
        IF frame.scanning
        THEN frame.remaining = 0
        ELSE frame.remaining = SCAN_INTERVAL - (frame.ctrlNow - frame.cycle_start)

\* C5: cycle_start is reset to the current time exactly once for each
\* completed scan and changes at no other step.
C5_CycleStartReset ==
    [][/\ cycle_start' # cycle_start => "scan_nmcli" \in Range(ops')
       /\ "scan_nmcli" \in Range(ops') =>
            /\ Count(ops', "scan_nmcli") = 1
            /\ Count(ops', "cycle_start") = 1
            /\ cycle_start' = hist'.doneAt
            /\ cycle_start' >= clock
            /\ cycle_start' <= clock'
       /\ "scan_nmcli" \notin Range(ops') => "cycle_start" \notin Range(ops')
      ]_vars

C5_Witness ==
    /\ ManualScanDone
    /\ ~hist.wasScanning
    /\ cycle_start > hist.at

\* C6 as stated: any two scan invocations are at least SCAN_INTERVAL apart.
C6_Original == hist.spaced

\* C6 (amended): an automatic scan is invoked at least SCAN_INTERVAL after
\* the invocation of the scan before it; a manual rescan is invoked whenever
\* its key is handled.
C6_AutoScanSpacing == hist.kind = "auto" => hist.spaced

C6_Witness ==
    /\ AutoScanDone
    /\ manualLeft = 0

\* C7 as stated: controller, header, movie-line cursor and footer all work
\* with one and the same captured clock value within a tick.
C7_Original ==
    frame.drawn =>
        /\ frame.hdrNow = frame.ctrlNow
        /\ frame.cursorNow = frame.ctrlNow
        /\ frame.footNow = frame.ctrlNow

\* C7 (amended): within a tick the controller, the header, the movie-line
\* cursor and the footer each work with their own clock read, taken in this
\* order, so the values never decrease from one to the next.
C7_ClockOrder ==
    frame.drawn =>
        /\ frame.ctrlNow = now
        /\ frame.ctrlNow <= frame.hdrNow
        /\ frame.hdrNow <= frame.cursorNow
        /\ frame.cursorNow <= frame.footNow
        /\ frame.footNow <= clock

C7_Witness ==
    /\ frame.drawn
    /\ frame.ctrlNow < frame.hdrNow
    /\ frame.hdrNow < frame.footNow

\* C8: at startup exactly one scan is performed, merged, persisted and given
\* default lab entries before the first tick, and the loop starts in
\* COUNTDOWN with cycle_start = the clock after that scan.
C8_Startup ==
    AtStartup =>
        /\ pc = "tick" /\ ~frame.drawn
        /\ Count(ops, "scan_nmcli") = 1
        /\ SubSeq(PostScanOps, 1, 5) = ops
        /\ StoresAfterScan
        /\ \A k \in DOMAIN lab_devices : ~lab_devices[k].active
        /\ ~scanning
        /\ cycle_start = hist.doneAt /\ cycle_start = clock

C8_Witness ==
    /\ AtStartup
    /\ cycle_start > 0
    /\ Cardinality(DOMAIN lab_devices) = 2

\* ======================================================================
\* Properties of the title animator (checked under TitleSpec)
\* ======================================================================
TitleCalled == title.mode = "run" /\ title.calls >= 1
TitleCalledTwice == title.mode = "run" /\ title.calls >= 2

\* floor(e / L) and e mod L for a cycle of L > 0 seconds, e in 1/TimeDen s
CycleIndex(e, L) == e \div (L * TimeDen)
CyclePos(e, L) == e - (L * TimeDen) * CycleIndex(e, L)

\* C9: for L > 1 the progress does not decrease between two elapsed times
\* e1 <= e2 of the same cycle, and it is len(full_text) whenever
\* (e mod L) >= L - 1.
C9_ProgressMonotone ==
    (TitleCalled /\ title.scan_interval > 1) =>
        /\ title.out.err = "none"
        /\ (CyclePos(title.e, title.scan_interval)
               >= (title.scan_interval - 1) * TimeDen)
             => title.out.progress = Len(title.full_text)
        /\ (/\ TitleCalledTwice
            /\ title.prevE <= title.e
            /\ CycleIndex(title.prevE, title.scan_interval)
                 = CycleIndex(title.e, title.scan_interval))
             => title.prevProgress <= title.out.progress

C9_Witness ==
    /\ TitleCalledTwice
    /\ title.scan_interval > 1
    /\ CycleIndex(title.prevE, title.scan_interval)
         = CycleIndex(title.e, title.scan_interval)
    /\ 0 < title.prevProgress
    /\ title.prevProgress < title.out.progress
    /\ CyclePos(title.e, title.scan_interval)
         >= (title.scan_interval - 1) * TimeDen
    /\ title.e < 0

\* C10: for L <= 1 (0 and negative values included) the animator returns the
\* unmodified text with progress = len(full_text) and raises no
\* ZeroDivisionError.
C10_DegeneratePeriod ==
    (TitleCalled /\ title.scan_interval <= 1) =>
        /\ title.out.err = "none"
        /\ title.out.text = title.full_text
        /\ title.out.progress = Len(title.full_text)

C10_Witness ==
    /\ TitleCalled
    /\ title.scan_interval = 0
    /\ Len(title.full_text) > 0
    /\ title.e # 0

\* ======================================================================
\* header.py: the countdown color
\* ======================================================================
GREEN == <<0, 255, 0>>
YELLOW == <<220, 220, 0>>
RED == <<255, 0, 0>>

\* _lerp_color, lines 71-78, for t = tn / td with td > 0.  A channel lies
\* between two color values, so int() of it is its floor.
_lerp_color(a, b, tn, td) ==
    LET t == Max(0, Min(td, tn))
    IN [i \in 1..3 |-> (a[i] * td + (b[i] - a[i]) * t) \div td]

\* variant: the upper gradient is spread over the whole 15 seconds
CountdownColorWrongSpan(remaining_u, scan_interval) ==
    LET r == Max(0, remaining_u)
    IN IF r > 15 * RemDen THEN GREEN
       ELSE IF 10 * RemDen < r /\ r <= 15 * RemDen
            THEN _lerp_color(GREEN, YELLOW, 15 * RemDen - r, 15 * RemDen)
       ELSE IF 5 * RemDen < r /\ r <= 10 * RemDen
            THEN _lerp_color(YELLOW, RED, 10 * RemDen - r, 5 * RemDen)
       ELSE RED

\* _get_countdown_color, lines 80-105; remaining_u is the remaining time in
\* units of 1/RemDen s.
_get_countdown_color(remaining_u, scan_interval) ==
    LET r == Max(0, remaining_u)
    IN IF r > 15 * RemDen THEN GREEN
       ELSE IF 10 * RemDen < r /\ r <= 15 * RemDen
            THEN _lerp_color(GREEN, YELLOW, 15 * RemDen - r, 5 * RemDen)
       ELSE IF 5 * RemDen < r /\ r <= 10 * RemDen
            THEN _lerp_color(YELLOW, RED, 10 * RemDen - r, 5 * RemDen)
       ELSE RED

RemainingRange == (0 - 2 * RemDen)..(MaxRemaining * RemDen)

\* No color has been computed yet.
ColorInit ==
    /\ LoopParked
    /\ title = TitleIdle
    /\ unit = [mode |-> "color", calls |-> 0, remaining |-> 0, color |-> GREEN,
               prevRemaining |-> 0, prevColor |-> GREEN]

\* draw_header, line 214: the color of the countdown of one frame.
CountdownColor ==
    /\ unit.mode = "color"
    /\ \E r \in RemainingRange :
          unit' = [mode |-> "color", calls |-> Min(unit.calls + 1, 2),
                   remaining |-> r,
                   color |-> _get_countdown_color(r, SCAN_INTERVAL),
                   prevRemaining |-> unit.remaining,
                   prevColor |-> unit.color]
    /\ UNCHANGED <<loopVars, title>>

ColorNext == CountdownColor

ColorSpec == ColorInit /\ [][ColorNext]_vars

\* ----------------------------------------------------------- properties
Abs(x) == IF x >= 0 THEN x ELSE 0 - x

\* c is the color at fraction tn / td of the way from a to b, each channel
\* up to the truncation to an integer.
OnSegment(c, a, b, tn, td) ==
    \A i \in 1..3 : Abs(c[i] * td - (a[i] * td + (b[i] - a[i]) * tn)) <= td

\* C11: the countdown color is the safe color above 15 s, the interpolation
\* safe -> warning on (10, 15], warning -> danger on (5, 10], the danger
\* color up to 5 s (negative values clamped to 0), and it is continuous at
\* the boundaries: safe at 15, warning at 10, where the upper segment ends.
C11_CountdownColor ==
    (unit.mode = "color" /\ unit.calls >= 1) =>
        LET r == Max(0, unit.remaining)
            c == unit.color
        IN /\ r > 15 * RemDen => c = GREEN
           /\ (10 * RemDen < r /\ r <= 15 * RemDen) =>
                 OnSegment(c, GREEN, YELLOW, 15 * RemDen - r, 5 * RemDen)
           /\ (5 * RemDen < r /\ r <= 10 * RemDen) =>
                 OnSegment(c, YELLOW, RED, 10 * RemDen - r, 5 * RemDen)
           /\ r <= 5 * RemDen => c = RED
           /\ r = 15 * RemDen => c = GREEN
           /\ r = 10 * RemDen => c = YELLOW
           /\ (/\ unit.calls >= 2
               /\ unit.prevRemaining = 10 * RemDen
               /\ unit.remaining = 10 * RemDen + 1) =>
                 \A i \in 1..3 : Abs(c[i] - unit.prevColor[i]) * RemDen <= 255

C11_Witness ==
    /\ unit.mode = "color" /\ unit.calls >= 2
    /\ unit.prevRemaining = 10 * RemDen
    /\ unit.remaining = 10 * RemDen + 1
    /\ unit.color # YELLOW

\* ======================================================================
\* footer.py: the status ticker
\* ======================================================================
DYNAMIC_INTERVAL == 7
TICKER_SPEED == 1
DEFAULT_TICK_SPEED == 2

\* Field values are sequences of characters; "NUL" stands for a null byte.
UpperChar(c) ==
    CASE c = "n" -> "N" [] c = "a" -> "A" [] c = "u" -> "U" [] OTHER -> c

Upper(str) == [i \in 1..Len(str) |-> UpperChar(str[i])]
StripNul(str) == SelectSeq(str, LAMBDA c : c # "NUL")

RECURSIVE Join(_, _)
Join(parts, sep) ==
    IF Len(parts) = 0 THEN <<>>
    ELSE IF Len(parts) = 1 THEN parts[1]
    ELSE parts[1] \o sep \o Join(Tail(parts), sep)

\* variant: the null bytes are left in the text
BuildTickerTextKeepsNul(st) ==
    Upper(Join(<<<<"V">> \o st.version, <<"L">> \o st.lan_ip,
                 <<"P">> \o st.public_ip, <<"M">> \o st.model,
                 <<"O">> \o st.os, <<"G">> \o st.geo,
                 <<"T">> \o st.time>>, <<"|">>)) \o <<"*">>

\* _build_ticker_text, lines 61-73.  Each label is cut to its first letter,
\* the delimiter to "|" and the trailing separator to "*".
_build_ticker_text(st) ==
    Upper(StripNul(Join(<<<<"V">> \o st.version, <<"L">> \o st.lan_ip,
                          <<"P">> \o st.public_ip, <<"M">> \o st.model,
                          <<"O">> \o st.os, <<"G">> \o st.geo,
                          <<"T">> \o st.time>>, <<"|">>))) \o <<"*">>

\* What the host-fact providers can return.
PublicIps == { <<"n", "a">>, <<"9">> }
Geos == { <<"u">>, <<"5">> }
LanIps == { <<"1">>, <<"2">>, <<"2", "NUL">> }

\* _get_local_time, line 59: the clock to the second (last digit kept)
_get_local_time(t) ==
    <<<<"0", "1", "2", "3", "4", "5", "6", "7", "8", "9">>[(t % 10) + 1]>>

NoSurface == [none |-> TRUE, text |-> <<>>, width |-> 0]

\* footer_font.render: the drawable form of a text, one pixel per character
Render(text) == [none |-> FALSE, text |-> text, width |-> Len(text)]

\* init_footer_state, lines 75-95
init_footer_state(t, lan, pub, geo) ==
    LET st0 == [version |-> <<"n", "a">>, lan_ip |-> lan, public_ip |-> pub,
                model |-> <<"m">>, os |-> <<"o">>, geo |-> geo,
                time |-> _get_local_time(t), last_refresh |-> t,
                last_rendered_text |-> <<>>, last_rendered_surface |-> NoSurface,
                ticker_text |-> <<>>]
    IN [st0 EXCEPT !.ticker_text = _build_ticker_text(st0)]

\* variant: the slow fields are refreshed on every call
RefreshStateNoDwell(st, t, pub, geo) ==
    LET s1 == [st EXCEPT !.public_ip = pub, !.geo = geo, !.last_refresh = t]
        s2 == [s1 EXCEPT !.time = _get_local_time(t)]
    IN [st |-> [s2 EXCEPT !.ticker_text = _build_ticker_text(s2)],
        changed |-> TRUE, slow |-> TRUE]

\* _refresh_state, lines 97-121.  t is the clock read at line 103; pub and
\* geo are what the providers return if they are asked.
_refresh_state(st, t, pub, geo) ==
    LET slow == t - st.last_refresh >= DYNAMIC_INTERVAL
        s1 == IF slow
              THEN [st EXCEPT !.public_ip = pub, !.geo = geo,
                              !.last_refresh = t]
              ELSE st
        new_time == _get_local_time(t)
        tchg == new_time # s1.time
        s2 == IF tchg THEN [s1 EXCEPT !.time = new_time] ELSE s1
        changed == slow \/ tchg
    IN [st |-> IF changed
               THEN [s2 EXCEPT !.ticker_text = _build_ticker_text(s2)]
               ELSE s2,
        changed |-> changed, slow |-> slow]

\* variant: the surface is rendered on every call
GetTickerSurfaceNoCache(st) ==
    IF st.ticker_text = <<>> THEN [st |-> st, surf |-> NoSurface, renders |-> 0]
    ELSE [st |-> [st EXCEPT !.last_rendered_text = st.ticker_text,
                            !.last_rendered_surface = Render(st.ticker_text)],
          surf |-> Render(st.ticker_text), renders |-> 1]

\* variant: a surface that exists is reused whatever the text is
GetTickerSurfaceKeepsFirst(st) ==
    IF st.ticker_text = <<>> THEN [st |-> st, surf |-> NoSurface, renders |-> 0]
    ELSE IF st.last_rendered_surface.none
         THEN [st |-> [st EXCEPT
                         !.last_rendered_text = st.ticker_text,
                         !.last_rendered_surface = Render(st.ticker_text)],
               surf |-> Render(st.ticker_text), renders |-> 1]
         ELSE [st |-> st, surf |-> st.last_rendered_surface, renders |-> 0]

\* _get_ticker_surface, lines 124-139
_get_ticker_surface(st) ==
    IF st.ticker_text = <<>> THEN [st |-> st, surf |-> NoSurface, renders |-> 0]
    ELSE IF st.ticker_text # st.last_rendered_text
            \/ st.last_rendered_surface.none
         THEN [st |-> [st EXCEPT
                         !.last_rendered_text = st.ticker_text,
                         !.last_rendered_surface = Render(st.ticker_text)],
               surf |-> Render(st.ticker_text), renders |-> 1]
         ELSE [st |-> st, surf |-> st.last_rendered_surface, renders |-> 0]

\* int() of a position: truncation toward zero, in units of 1/PosDen pixel
IntPos(x) ==
    IF x >= 0 THEN (x \div PosDen) * PosDen
    ELSE 0 - (((0 - x) \div PosDen) * PosDen)

\* variant: the per-frame decrement is applied to the new position as well
ScrollDecrementsAfterWrap(ticker_x, width, screen_width, tick_speed) ==
    LET x == IntPos(ticker_x) - tick_speed
    IN IF x < 0 - width * PosDen
       THEN screen_width * PosDen - tick_speed
       ELSE x

\* draw_footer, lines 162-176: the position returned when a surface of the
\* given width is drawn.  ticker_x and tick_speed are in units of 1/PosDen
\* pixel, width and screen_width in pixels.
Scroll(ticker_x, width, screen_width, tick_speed) ==
    LET x == IntPos(ticker_x) - tick_speed
    IN IF x < 0 - width * PosDen THEN screen_width * PosDen ELSE x

\* draw_footer, lines 141-176
draw_footer(st, ticker_x, screen_width, tick_speed, t, pub, geo) ==
    LET r == _refresh_state(st, t, pub, geo)
        g == _get_ticker_surface(r.st)
    IN [st |-> g.st, surf |-> g.surf, renders |-> g.renders,
        changed |-> r.changed, slow |-> r.slow,
        ticker_x |-> IF g.surf.none THEN ticker_x
                     ELSE Scroll(ticker_x, g.surf.width, screen_width,
                                 tick_speed)]

\* ----------------------------------------------------------------------
\* The footer on its own: a caller that draws frames, as the main loop does
\* at lines 342-446 of matrix_console.py, and may change a field of the
\* state between two frames.
\* ----------------------------------------------------------------------
SCREEN_WIDTH == 480

SpeedsU == { PosDen \div 2, TICKER_SPEED * PosDen, DEFAULT_TICK_SPEED * PosDen }

DisplayedFields(st) ==
    <<st.version, st.lan_ip, st.public_ip, st.model, st.os, st.geo, st.time>>

FooterInit ==
    /\ LoopParked
    /\ title = TitleIdle
    /\ \E lan \in LanIps \ {<<"2", "NUL">>}, pub \in PublicIps, geo \in Geos,
          speed \in SpeedsU :
         unit = [mode |-> "footer",
                 st |-> init_footer_state(0, lan, pub, geo),
                 clock |-> 0, ticker_x |-> ViewportPx * PosDen,
                 screen_width |-> ViewportPx, tick_speed |-> speed,
                 frames |-> 0, edits |-> 0, renders |-> 0,
                 changed |-> FALSE, slow |-> FALSE, drawn |-> NoSurface,
                 prevFields |-> <<>>, prevText |-> <<>>, prevX |-> 0,
                 edited |-> FALSE,
                 before |-> [public_ip |-> <<>>, geo |-> <<>>,
                             last_refresh |-> 0]]

\* one frame: draw_footer with the clock read at footer.py line 103
DrawFooter ==
    /\ unit.mode = "footer"
    /\ \E d \in 0..MaxDrift, pub \in PublicIps, geo \in Geos :
         LET t == unit.clock + d
             r == draw_footer(unit.st, unit.ticker_x, unit.screen_width,
                              unit.tick_speed, t, pub, geo)
         IN /\ t <= MaxFooterTime
            /\ unit' = [unit EXCEPT
                   !.st = r.st, !.clock = t, !.ticker_x = r.ticker_x,
                   !.frames = Min(2, unit.frames + 1),
                   !.renders = r.renders, !.changed = r.changed,
                   !.slow = r.slow, !.drawn = r.surf,
                   !.prevFields = IF unit.frames = 0 THEN <<>>
                                  ELSE IF unit.edited THEN unit.prevFields
                                  ELSE DisplayedFields(unit.st),
                   !.prevText = unit.st.last_rendered_text,
                   !.prevX = unit.ticker_x,
                   !.edited = FALSE,
                   !.before = [public_ip |-> unit.st.public_ip,
                               geo |-> unit.st.geo,
                               last_refresh |-> unit.st.last_refresh]]
    /\ UNCHANGED <<loopVars, title>>

\* between two frames the caller assigns one field of the state dictionary
EditField ==
    /\ unit.mode = "footer"
    /\ unit.frames >= 1
    /\ ~unit.edited
    /\ unit.edits < MaxEdits
    /\ \/ \E v \in LanIps \ {unit.st.lan_ip} :
            unit' = [unit EXCEPT !.st.lan_ip = v, !.edited = TRUE,
                                 !.edits = unit.edits + 1,
                                 !.prevFields = DisplayedFields(unit.st)]
       \/ \E v \in PublicIps \ {unit.st.public_ip} :
            unit' = [unit EXCEPT !.st.public_ip = v, !.edited = TRUE,
                                 !.edits = unit.edits + 1,
                                 !.prevFields = DisplayedFields(unit.st)]
    /\ UNCHANGED <<loopVars, title>>

FooterNext == DrawFooter \/ EditField

FooterSpec == FooterInit /\ [][FooterNext]_vars

\* The scroll arithmetic of draw_footer on its own, for surfaces and
\* viewports of the sizes the program has.
ScrollInit ==
    /\ LoopParked
    /\ title = TitleIdle
    /\ \E w \in {ViewportPx - 1, 50}, sw \in {ViewportPx, SCREEN_WIDTH},
          speed \in SpeedsU,
          x0 \in {0 - 51 * PosDen, 0 - 51 * PosDen - 1, 0 - 1, 1} :
         unit = [mode |-> "scroll", width |-> w, screen_width |-> sw,
                 tick_speed |-> speed, ticker_x |-> x0, prevX |-> x0,
                 frames |-> 0]

ScrollFrame ==
    /\ unit.mode = "scroll"
    /\ unit' = [unit EXCEPT
           !.ticker_x = Scroll(unit.ticker_x, unit.width, unit.screen_width,
                               unit.tick_speed),
           !.prevX = unit.ticker_x,
           !.frames = Min(2, unit.frames + 1)]
    /\ UNCHANGED <<loopVars, title>>

ScrollNext == ScrollFrame

ScrollSpec == ScrollInit /\ [][ScrollNext]_vars

\* ----------------------------------------------------------------------
\* Properties of the footer
\* ----------------------------------------------------------------------
FieldsNow == DisplayedFields(unit.st)

ChangedFields ==
    { i \in 1..7 : unit.prevFields[i] # FieldsNow[i] }

SecondFrame == unit.mode = "footer" /\ unit.frames = 2 /\ ~unit.edited

\* C12: a frame drawn with no displayed field changed since the previous
\* frame renders nothing, and a frame drawn after exactly one displayed field
\* changed renders the ticker surface exactly once.
C12_Original ==
    SecondFrame =>
        /\ ChangedFields = {} => unit.renders = 0
        /\ Cardinality(ChangedFields) = 1 => unit.renders = 1

\* the cache is keyed by the composed text alone
C12_CacheByText ==
    SecondFrame =>
        unit.renders = (IF unit.st.ticker_text # unit.prevText THEN 1 ELSE 0)

C12_WitnessReuse == SecondFrame /\ ChangedFields = {} /\ unit.renders = 0

C12_WitnessStale ==
    /\ SecondFrame
    /\ ChangedFields = {2}
    /\ unit.renders = 0
    /\ unit.st.ticker_text # _build_ticker_text(unit.st)

ScrollDone == unit.mode = "scroll" /\ unit.frames >= 1

Target == IntPos(unit.prevX) - unit.tick_speed

\* C13: the position draw_footer returns is the viewport width when the
\* truncated position minus tick_speed is below -width and the truncated
\* position minus tick_speed otherwise; width 50, viewport 480 and x = -51
\* give 480; from a position that is at most the viewport width the
\* returned position lies in [-width, viewport].
C13_Scroll ==
    ScrollDone =>
        /\ Target < 0 - unit.width * PosDen
              => unit.ticker_x = unit.screen_width * PosDen
        /\ Target >= 0 - unit.width * PosDen => unit.ticker_x = Target
        /\ (unit.width = 50 /\ unit.screen_width = SCREEN_WIDTH
              /\ unit.prevX = 0 - 51 * PosDen)
              => unit.ticker_x = SCREEN_WIDTH * PosDen
        /\ unit.prevX <= unit.screen_width * PosDen
              => /\ unit.ticker_x >= 0 - unit.width * PosDen
                 /\ unit.ticker_x <= unit.screen_width * PosDen

C13_Witness ==
    /\ ScrollDone
    /\ unit.width = 50
    /\ unit.screen_width = SCREEN_WIDTH
    /\ unit.prevX = 0 - 51 * PosDen
    /\ unit.ticker_x = SCREEN_WIDTH * PosDen

C13_WitnessMove ==
    /\ ScrollDone
    /\ unit.prevX < 0
    /\ unit.ticker_x = Target
    /\ unit.ticker_x < unit.prevX

\* ======================================================================
\* Typing: matrix_movie_singleline.type_sentence and the console's
\* movie-line counter
\* ======================================================================
MISTAKE_PROBABILITY_PCT == 12

\* "Wake up, Neo.", the first of LINES, cut to n characters
Sentence(n) ==
    SubSeq(<<"W", "a", "k", "e", " ", "u", "p", ",", " ", "N", "e", "o", ".">>,
           1, n)

MISTAKE_CHARS == { "a", "#" }

\* random.random(), in hundredths
RandomPct == { 0, 11, 12, 99 }

\* variant: a wrong character may be typed before a space as well
MistakeBeforeAnyChar(ch, rnd, prob) == rnd < prob

\* type_sentence, line 169: is a wrong character typed first?
Mistake(ch, rnd, prob) == ch # " " /\ rnd < prob

TypeInit ==
    /\ LoopParked
    /\ title = TitleIdle
    /\ \E prob \in {0, MISTAKE_PROBABILITY_PCT},
          n \in {TypeLen - 1, TypeLen} :
         unit = [mode |-> "typing", prob |-> prob,
                 sentence |-> Sentence(n), txt |-> <<>>, i |-> 0,
                 tpc |-> "char", typeDelays |-> 0, mistakeDelays |-> 0,
                 rendered |-> 0, typed |-> <<>>,
                 line |-> Sentence(n), visible |-> 0, last |-> 0, now |-> 0,
                 intervals |-> 0]

\* type_sentence, lines 177-179: the character is appended, the line is
\* rendered and the character delay is taken
TypeChar ==
    /\ unit.mode = "typing"
    /\ unit.tpc \in {"char", "erased"}
    /\ unit.i < Len(unit.sentence)
    /\ unit.tpc = "char" =>
          \E rnd \in RandomPct :
              ~Mistake(unit.sentence[unit.i + 1], rnd, unit.prob)
    /\ unit' = [unit EXCEPT
           !.txt = Append(unit.txt, unit.sentence[unit.i + 1]),
           !.rendered = Len(unit.txt) + 1,
           !.i = unit.i + 1, !.tpc = "char",
           !.typeDelays = unit.typeDelays + 1]
    /\ UNCHANGED <<loopVars, title>>

\* lines 169-173: a wrong character is appended, rendered and held
TypeWrong ==
    /\ unit.mode = "typing"
    /\ unit.tpc = "char"
    /\ unit.i < Len(unit.sentence)
    /\ \E rnd \in RandomPct, wrong \in MISTAKE_CHARS :
         /\ Mistake(unit.sentence[unit.i + 1], rnd, unit.prob)
         /\ unit' = [unit EXCEPT
                !.txt = Append(unit.txt, wrong),
                !.rendered = Len(unit.txt) + 1,
                !.tpc = "wrong",
                !.mistakeDelays = unit.mistakeDelays + 1]
    /\ UNCHANGED <<loopVars, title>>

\* lines 174-176: the wrong character is removed, the line rendered and held
EraseWrong ==
    /\ unit.mode = "typing"
    /\ unit.tpc = "wrong"
    /\ unit' = [unit EXCEPT
           !.txt = SubSeq(unit.txt, 1, Len(unit.txt) - 1),
           !.rendered = Len(unit.txt) - 1,
           !.tpc = "erased",
           !.mistakeDelays = unit.mistakeDelays + 1]
    /\ UNCHANGED <<loopVars, title>>

\* line 180: return txt
TypeReturn ==
    /\ unit.mode = "typing"
    /\ unit.tpc = "char"
    /\ unit.i = Len(unit.sentence)
    /\ unit' = [unit EXCEPT !.tpc = "done", !.typed = unit.txt]
    /\ UNCHANGED <<loopVars, title>>

\* one frame of the console, matrix_console.py lines 366-372, for one line
MovieFrame ==
    /\ unit.mode = "typing"
    /\ \E d \in 0..MaxDrift :
         LET t == unit.now + d
             m == MovieTyping(unit.visible, unit.line, unit.last, t)
         IN /\ t <= MaxTypeTime
            /\ unit' = [unit EXCEPT
                   !.now = t, !.visible = m.visible, !.last = m.last,
                   !.intervals =
                       IF (t - unit.last) * 100 >= MOVIE_TYPE_DELAY_CS
                          /\ unit.intervals < Len(unit.line)
                       THEN unit.intervals + 1 ELSE unit.intervals]
    /\ UNCHANGED <<loopVars, title>>

TypeNext == TypeChar \/ TypeWrong \/ EraseWrong \/ TypeReturn \/ MovieFrame

TypeSpec == TypeInit /\ [][TypeNext]_vars

NoMistakes == unit.mode = "typing" /\ unit.prob = 0

Keys == { "AA:BB", "CC:DD", "EE:FF" }

NoOp == [name |-> "none", key |-> "", nets |-> <<>>]

StoreCallsInit ==
    /\ LoopParked
    /\ title = TitleIdle
    /\ \E doc \in LoadedDocs :
         unit = [mode |-> "stores", clock |-> 0, steps |-> 0,
                 discovered |-> doc.discovered, lab |-> doc.lab,
                 disk_discovered |-> doc.discovered, disk_lab |-> doc.lab,
                 op |-> NoOp, prevDiscovered |-> doc.discovered,
                 prevLab |-> doc.lab, prevDiskLab |-> doc.lab,
                 returned |-> EmptyStore, labSaves |-> 0]

StoreStep(op, t, d, l, dd, dl, ret, saves) ==
    unit' = [unit EXCEPT
        !.clock = t, !.steps = unit.steps + 1, !.op = op,
        !.prevDiscovered = unit.discovered, !.prevLab = unit.lab,
        !.prevDiskLab = unit.disk_lab,
        !.discovered = d, !.lab = l, !.disk_discovered = dd,
        !.disk_lab = dl, !.returned = ret, !.labSaves = saves]

\* update_discovered(discovered, nets)
CallMerge ==
    /\ unit.mode = "stores"
    /\ unit.steps < MaxStoreOps
    /\ \E result \in scan_nmcli, dt \in 0..MaxDrift :
         LET t == unit.clock + dt
             d1 == update_discovered(unit.discovered, result, t)
         IN StoreStep([name |-> "merge", key |-> "", nets |-> result], t,
                      d1, unit.lab, unit.disk_discovered, unit.disk_lab,
                      d1, 0)
    /\ UNCHANGED <<loopVars, title>>

\* the scan sequence of main(), lines 346-349
CallScan ==
    /\ unit.mode = "stores"
    /\ unit.steps < MaxStoreOps
    /\ \E result \in scan_nmcli, dt \in 0..MaxDrift :
         LET t == unit.clock + dt
             r == ScanSteps(unit.discovered, unit.lab, unit.disk_lab,
                            result, t)
         IN StoreStep([name |-> "scan", key |-> "", nets |-> result], t,
                      r.discovered, r.lab, r.disk_discovered, r.disk_lab,
                      r.lab,
                      ensure_lab_entries(r.discovered, unit.lab,
                                         unit.disk_lab).saves)
    /\ UNCHANGED <<loopVars, title>>

\* ensure_lab_entries(discovered, lab_devices)
CallEnsure ==
    /\ unit.mode = "stores"
    /\ unit.steps < MaxStoreOps
    /\ LET e == ensure_lab_entries(unit.discovered, unit.lab, unit.disk_lab)
       IN StoreStep([name |-> "ensure", key |-> "", nets |-> <<>>],
                    unit.clock, unit.discovered, e.lab,
                    unit.disk_discovered, e.file, e.lab, e.saves)
    /\ UNCHANGED <<loopVars, title>>

\* toggle_lab_device(bssid, discovered, lab_devices)
CallToggle ==
    /\ unit.mode = "stores"
    /\ unit.steps < MaxStoreOps
    /\ \E k \in Keys :
         LET r == toggle_lab_device(k, unit.discovered, unit.lab)
         IN StoreStep([name |-> "toggle", key |-> k, nets |-> <<>>],
                      unit.clock, unit.discovered, r.lab,
                      unit.disk_discovered, r.file, r.returned, 1)
    /\ UNCHANGED <<loopVars, title>>

StoreCallsNext == CallMerge \/ CallScan \/ CallEnsure \/ CallToggle

StoreCallsSpec == StoreCallsInit /\ [][StoreCallsNext]_vars

\* ----------------------------------------------------------------------
\* Properties of the stores
\* ----------------------------------------------------------------------
StoreCalled == unit.mode = "stores" /\ unit.steps >= 1

Merged(k) ==
    /\ unit.op.name \in {"merge", "scan"}
    /\ \E i \in DOMAIN unit.op.nets :
         LET n == unit.op.nets[i]
         IN /\ n.bssid = k
            /\ unit.discovered[k] =
                 [unit.prevDiscovered[k] EXCEPT
                    !.ssid = n.ssid, !.last_seen = unit.clock,
                    !.last_signal = n.signal, !.security = n.security]

\* C15: under any sequence of merges, scans, default insertions and toggles
\* a key of the discovered store is never removed and keeps its first_seen;
\* an entry changes only by a merge of a record with its key, which sets
\* ssid, last_seen, last_signal and security and nothing else; AA:BB merged
\* with signal 40 and then with signal 70 has last_signal 70 and the
\* first_seen of the first merge.
C15_AppendOnly ==
    StoreCalled =>
        /\ \A k \in DOMAIN unit.prevDiscovered :
             /\ k \in DOMAIN unit.discovered
             /\ unit.discovered[k].first_seen
                   = unit.prevDiscovered[k].first_seen
             /\ unit.discovered[k] # unit.prevDiscovered[k] => Merged(k)
        /\ \A k \in (DOMAIN unit.discovered) \ (DOMAIN unit.prevDiscovered) :
             /\ unit.op.name \in {"merge", "scan"}
             /\ unit.discovered[k].first_seen = unit.clock
             /\ unit.discovered[k].last_seen = unit.clock
        /\ ( /\ "AA:BB" \in DOMAIN unit.prevDiscovered
             /\ unit.prevDiscovered["AA:BB"].last_signal = 40
             /\ unit.op.name \in {"merge", "scan"}
             /\ unit.op.nets # <<>>
             /\ unit.op.nets[1] = NetA70 )
           => /\ unit.discovered["AA:BB"].last_signal = 70
              /\ unit.discovered["AA:BB"].first_seen
                    = unit.prevDiscovered["AA:BB"].first_seen

C15_Witness ==
    /\ StoreCalled
    /\ unit.op.name = "merge"
    /\ "AA:BB" \in DOMAIN unit.prevDiscovered
    /\ unit.prevDiscovered["AA:BB"].last_signal = 40
    /\ unit.prevDiscovered["AA:BB"].first_seen = 0
    /\ unit.discovered["AA:BB"].last_signal = 70
    /\ unit.discovered["AA:BB"].first_seen = 0
    /\ unit.discovered["AA:BB"].last_seen > 0
    /\ "CC:DD" \in DOMAIN unit.discovered

\* C17: the active flag of an existing lab entry changes only in a
\* toggle_lab_device call for its own key; merges, scans, default
\* insertions and toggles of other keys leave it as it was, a toggle of the
\* key flips it, and a second toggle of the key restores it.
C17_ActiveOnlyByToggle ==
    StoreCalled =>
        /\ \A k \in DOMAIN unit.prevLab :
             /\ k \in DOMAIN unit.lab
             /\ unit.lab[k].active # unit.prevLab[k].active
                   <=> (unit.op.name = "toggle" /\ unit.op.key = k)
        /\ \A k \in DOMAIN unit.lab :
             LET once == toggle_lab_device(k, unit.discovered, unit.lab).lab
                 twice == toggle_lab_device(k, unit.discovered, once).lab
             IN /\ once[k].active # unit.lab[k].active
                /\ twice[k].active = unit.lab[k].active

C17_Witness ==
    /\ StoreCalled
    /\ unit.op.name = "toggle"
    /\ unit.op.key = "AA:BB"
    /\ "AA:BB" \in DOMAIN unit.prevLab
    /\ "CC:DD" \in DOMAIN unit.prevLab
    /\ unit.lab["AA:BB"].active # unit.prevLab["AA:BB"].active
    /\ unit.lab["CC:DD"].active = unit.prevLab["CC:DD"].active

ToggledUnknown ==
    /\ StoreCalled
    /\ unit.op.name = "toggle"
    /\ unit.op.key \notin DOMAIN unit.prevLab
    /\ unit.op.key \notin DOMAIN unit.discovered

\* C18 as stated: toggling a key that is in neither store creates the lab
\* entry [ssid = "", active = true], writes the lab document and returns
\* the updated entry.
C18_Original ==
    ToggledUnknown =>
        /\ unit.lab[unit.op.key] = [ssid |-> "", active |-> TRUE]
        /\ unit.disk_lab = unit.lab
        /\ unit.returned = unit.lab[unit.op.key]

\* C18: toggling a key that is in neither store creates the lab entry
\* [ssid = "", active = true], leaves the other entries as they were,
\* writes the lab document and returns the updated lab mapping.
C18_ToggleUnknown ==
    ToggledUnknown =>
        /\ unit.lab[unit.op.key] = [ssid |-> "", active |-> TRUE]
        /\ DOMAIN unit.lab = (DOMAIN unit.prevLab) \cup {unit.op.key}
        /\ \A k \in DOMAIN unit.prevLab : unit.lab[k] = unit.prevLab[k]
        /\ unit.disk_lab = unit.lab
        /\ unit.labSaves = 1
        /\ unit.returned = unit.lab

C18_Witness ==
    /\ ToggledUnknown
    /\ unit.op.key = "EE:FF"
    /\ unit.prevLab # EmptyStore
    /\ unit.lab["EE:FF"].active
    /\ unit.prevDiskLab # unit.disk_lab

\* ----------------------------------------------------------------------
\* The stores in the main loop
\* ----------------------------------------------------------------------
DefaultsAdded(d, l) ==
    [k \in (DOMAIN l) \cup (DOMAIN d) |->
        IF k \in DOMAIN l THEN l[k]
        ELSE [ssid |-> d[k].ssid, active |-> FALSE]]

\* a step of the loop that scans: ensure_lab_entries is called with the
\* merged discovered store and the lab store as it was
EnsureInScan ==
    "scan_nmcli" \in Range(ops') =>
        LET missing == (DOMAIN discovered') \ (DOMAIN lab_devices)
            e == ensure_lab_entries(discovered', lab_devices, disk_lab)
        IN /\ lab_devices' = DefaultsAdded(discovered', lab_devices)
           /\ e.lab = lab_devices'
           /\ e.saves = (IF missing # {} THEN 1 ELSE 0)
           /\ disk_lab' = (IF missing # {} THEN lab_devices' ELSE disk_lab)

\* C16: ensure_lab_entries adds the default entry (active = false) for
\* every discovered key that has no lab entry and keeps the others, writes
\* the lab document once if it added an entry and not at all otherwise; at
\* every frame boundary every discovered key has a lab entry.
C16_EnsureDefaults ==
    /\ DOMAIN discovered \subseteq DOMAIN lab_devices
    /\ [][ EnsureInScan
           /\ DOMAIN discovered' \subseteq DOMAIN lab_devices' ]_vars

C16_Witness ==
    /\ ManualScanDone
    /\ DOMAIN lab_devices = {"AA:BB", "CC:DD"}
    /\ lab_devices["AA:BB"].active
    /\ ~lab_devices["CC:DD"].active
    /\ lab_devices["CC:DD"].ssid = "cafe"
    /\ discovered["CC:DD"].first_seen = hist.doneAt
    /\ disk_lab = lab_devices

C16_WitnessNoInsert ==
    /\ ManualScanDone
    /\ discovered # EmptyStore
    /\ \A k \in DOMAIN discovered : discovered[k].first_seen < hist.doneAt

\* C19: at every frame boundary of the main loop the lab document on disk
\* equals the lab mapping in memory and the discovered document on disk
\* equals the discovered mapping in memory.
C19_DiskEqualsMemory ==
    /\ disk_lab = lab_devices
    /\ disk_discovered = discovered

C19_Witness ==
    /\ pc = "tick"
    /\ hist.kind = "manual"
    /\ "CC:DD" \in DOMAIN lab_devices
    /\ lab_devices["CC:DD"].active
    /\ discovered["CC:DD"].first_seen >= 0
    /\ disk_lab = lab_devices
    /\ disk_discovered = discovered

\* ======================================================================
\* save_json and load_json, matrix_console.py lines 46-65
\* ======================================================================
\* A path is its stem and its suffix; a file system maps the paths that
\* exist to their contents, and a content is the sequence of chunks written.
LAB_FILE == [stem |-> "lab_devices", suffix |-> <<".json">>]

\* variant: the document is written to the target path itself
TmpPathInPlace(path) == path

\* line 62: path.with_suffix(path.suffix + ".tmp")
TmpPath(path) == [path EXCEPT !.suffix = path.suffix \o <<".tmp">>]

Absent == <<"absent">>

Content(fs, path) == IF path \in DOMAIN fs THEN fs[path] ELSE Absent

Remove(fs, path) == [q \in (DOMAIN fs) \ {path} |-> fs[q]]

\* os.replace(src, dst), line 65: one atomic step of the file system
Replace(fs, src, dst) ==
    IF src = dst THEN fs ELSE Remove(Put(fs, dst, fs[src]), src)

KeyOrder == <<"AA:BB", "CC:DD", "EE:FF">>

\* json.dump, line 64: the chunks written for a mapping, in order
Dump(doc) ==
    LET ks == SelectSeq(KeyOrder, LAMBDA k : k \in DOMAIN doc)
    IN <<"{">> \o [i \in 1..Len(ks) |-> [key |-> ks[i], value |-> doc[ks[i]]]]
       \o <<"}">>

LabDocs ==
    { EmptyStore,
      Put(EmptyStore, "AA:BB", [ssid |-> "home", active |-> FALSE]),
      Put(Put(EmptyStore, "AA:BB", [ssid |-> "home", active |-> TRUE]),
          "CC:DD", [ssid |-> "cafe", active |-> FALSE]) }

\* load_json, lines 46-56: the default for a missing or unreadable document
load_json(fs, path, default) ==
    IF path \notin DOMAIN fs THEN default
    ELSE IF \E doc \in LabDocs : Dump(doc) = fs[path]
         THEN CHOOSE doc \in LabDocs : Dump(doc) = fs[path]
         ELSE default

SaveInit ==
    /\ LoopParked
    /\ title = TitleIdle
    /\ \E fs0 \in {EmptyStore} \cup {Put(EmptyStore, LAB_FILE, Dump(doc)) :
                                      doc \in LabDocs} :
         unit = [mode |-> "save", fs |-> fs0, spc |-> "idle", saves |-> 0,
                 path |-> LAB_FILE, tmp |-> TmpPath(LAB_FILE),
                 data |-> load_json(fs0, LAB_FILE, EmptyStore),
                 before |-> Content(fs0, LAB_FILE),
                 loaded |-> load_json(fs0, LAB_FILE, EmptyStore),
                 why |-> "none"]

\* lines 62-63: the temporary file is opened for writing, which empties it
SaveOpen ==
    /\ unit.mode = "save"
    /\ unit.spc = "idle"
    /\ unit.saves < MaxSaves
    /\ \E doc \in LabDocs :
         unit' = [unit EXCEPT
             !.tmp = TmpPath(unit.path),
             !.fs = Put(unit.fs, TmpPath(unit.path), <<>>),
             !.data = doc, !.before = Content(unit.fs, unit.path),
             !.spc = "writing", !.saves = unit.saves + 1, !.why = "none"]
    /\ UNCHANGED <<loopVars, title>>

\* line 64: json.dump writes the next chunk
SaveWrite ==
    /\ unit.mode = "save"
    /\ unit.spc = "writing"
    /\ Len(unit.fs[unit.tmp]) < Len(Dump(unit.data))
    /\ unit' = [unit EXCEPT
           !.fs = Put(unit.fs, unit.tmp,
                      Append(unit.fs[unit.tmp],
                             Dump(unit.data)[Len(unit.fs[unit.tmp]) + 1]))]
    /\ UNCHANGED <<loopVars, title>>

\* line 64-65: the with block ends and the file is closed
SaveClose ==
    /\ unit.mode = "save"
    /\ unit.spc = "writing"
    /\ unit.fs[unit.tmp] = Dump(unit.data)
    /\ unit' = [unit EXCEPT !.spc = "closed"]
    /\ UNCHANGED <<loopVars, title>>

\* line 65: os.replace(tmp, path)
SaveReplace ==
    /\ unit.mode = "save"
    /\ unit.spc = "closed"
    /\ unit' = [unit EXCEPT
           !.fs = Replace(unit.fs, unit.tmp, unit.path), !.spc = "idle"]
    /\ UNCHANGED <<loopVars, title>>

\* a write raises (the disk is full): the exception leaves save_json
SaveRaise ==
    /\ unit.mode = "save"
    /\ unit.spc = "writing"
    /\ unit' = [unit EXCEPT !.spc = "stopped", !.why = "raised"]
    /\ UNCHANGED <<loopVars, title>>

\* the process is killed in the middle of a save
SaveCrash ==
    /\ unit.mode = "save"
    /\ unit.spc \in {"writing", "closed"}
    /\ unit' = [unit EXCEPT !.spc = "stopped", !.why = "killed"]
    /\ UNCHANGED <<loopVars, title>>

\* the program is started again: main(), line 343
SaveRestart ==
    /\ unit.mode = "save"
    /\ unit.spc = "stopped"
    /\ unit' = [unit EXCEPT
           !.spc = "idle",
           !.loaded = load_json(unit.fs, unit.path, EmptyStore)]
    /\ UNCHANGED <<loopVars, title>>

SaveNext ==
    \/ SaveOpen \/ SaveWrite \/ SaveClose \/ SaveReplace
    \/ SaveRaise \/ SaveCrash \/ SaveRestart

SaveSpec == SaveInit /\ [][SaveNext]_vars

TargetNow == Content(unit.fs, unit.path)

\* C20: at every step of a save, a failure or a kill before the rename
\* included, the target path holds the complete document it held before the
\* save (or nothing, if there was none) or the complete new document, never
\* a part of one.
C20_AtomicSave ==
    unit.mode = "save" =>
        /\ TargetNow = unit.before \/ TargetNow = Dump(unit.data)
        /\ TargetNow = Absent \/ \E doc \in LabDocs : TargetNow = Dump(doc)
        /\ unit.spc \in {"writing", "closed", "stopped"}
              => TargetNow = unit.before
        /\ (unit.spc = "idle" /\ unit.saves > 0 /\ unit.why = "none")
              => TargetNow = Dump(unit.data)

C20_Witness ==
    /\ unit.mode = "save"
    /\ unit.spc = "stopped"
    /\ Len(unit.fs[unit.tmp]) > 0
    /\ Len(unit.fs[unit.tmp]) < Len(Dump(unit.data))
    /\ unit.before # Absent
    /\ unit.before # Dump(unit.data)
    /\ TargetNow = unit.before

C20_WitnessReplaced ==
    /\ unit.mode = "save"
    /\ unit.spc = "idle"
    /\ unit.saves = 2
    /\ unit.why = "none"
    /\ unit.before # Absent
    /\ TargetNow = Dump(unit.data)
    /\ TargetNow # unit.before
    /\ unit.tmp \notin DOMAIN unit.fs

\* ----------------------------------------------------------------------
\* Clicks on the table
\* ----------------------------------------------------------------------
ClickStep ==
    /\ pc = "events"
    /\ handled' = handled + 1
    /\ ops' \in {<<"toggle_lab_device", "save_lab">>, <<"click_ignored">>}

\* the lab entries a step created or changed
ToggledKeys ==
    { k \in DOMAIN lab_devices' :
        k \notin DOMAIN lab_devices \/ lab_devices'[k] # lab_devices[k] }

InTable(y) == ROW_Y_START <= y /\ y < SCREEN_HEIGHT - TABLE_BOTTOM_MARGIN

\* the click hit a row that the frame on screen has
OnDrawnRow(y) ==
    InTable(y) /\ (y - ROW_Y_START) \div ROW_H < Len(frame.rows)

RowRecord(y) == frame.rows[(y - ROW_Y_START) \div ROW_H + 1]

Flipped(k) ==
    /\ k \in DOMAIN lab_devices
    /\ lab_devices'[k] = [lab_devices[k] EXCEPT !.active = ~lab_devices[k].active]

\* C21 as stated: a click on a drawn row toggles the device of that row and
\* no other; any other click toggles nothing.
C21_Original ==
    [][ ClickStep =>
          LET y == frame'.clickY
          IN IF OnDrawnRow(y)
             THEN /\ ToggledKeys = {RowRecord(y).bssid}
                  /\ Flipped(RowRecord(y).bssid)
             ELSE ToggledKeys = {} ]_vars

\* C21: a click inside the table region on a row of the last rendered frame
\* whose record carries a hardware address toggles that device and no
\* other; a click on a drawn row without an address, on a band with no
\* drawn row or outside the table region toggles nothing.
C21_ClickTogglesRow ==
    [][ ClickStep =>
          LET y == frame'.clickY
          IN /\ IF OnDrawnRow(y) /\ RowRecord(y).bssid # ""
                THEN /\ ToggledKeys = {RowRecord(y).bssid}
                     /\ Flipped(RowRecord(y).bssid)
                     /\ disk_lab' = lab_devices'
                ELSE /\ ToggledKeys = {}
                     /\ lab_devices' = lab_devices
                     /\ disk_lab' = disk_lab
             /\ discovered' = discovered ]_vars

C21_Witness ==
    /\ pc = "events"
    /\ ops = <<"toggle_lab_device", "save_lab">>
    /\ frame.clickY = 256
    /\ Len(frame.rows) = max_rows
    /\ Len(nets) = 12
    /\ lab_devices["N11"].active
    /\ \A k \in (DOMAIN lab_devices) \ {"N11"} : ~lab_devices[k].active

C21_WitnessNoAddress ==
    /\ pc = "events"
    /\ ops = <<"click_ignored">>
    /\ frame.clickY = 79
    /\ Len(frame.rows) = 2
    /\ frame.rows[2].bssid = ""

C21_WitnessBelowRows ==
    /\ pc = "events"
    /\ ops = <<"click_ignored">>
    /\ frame.clickY = 276
    /\ Len(nets) = 12

\* ======================================================================
\* scan_nmcli: parsing the command's output, matrix_console.py lines 77-111
\* ======================================================================
\* A line of output is a sequence of tokens; ":" is the separator and the
\* other tokens are pieces of text.
RECURSIVE JoinStr(_)
JoinStr(toks) == IF toks = <<>> THEN "" ELSE Head(toks) \o JoinStr(Tail(toks))

FirstColon(toks) ==
    IF \E i \in 1..Len(toks) : toks[i] = ":"
    THEN CHOOSE i \in 1..Len(toks) :
            toks[i] = ":" /\ \A j \in 1..(i - 1) : toks[j] # ":"
    ELSE 0

\* line.split(":", maxsplit), line 91
RECURSIVE SplitColon(_, _)
SplitColon(toks, maxsplit) ==
    IF maxsplit = 0 \/ FirstColon(toks) = 0 THEN <<JoinStr(toks)>>
    ELSE <<JoinStr(SubSeq(toks, 1, FirstColon(toks) - 1))>>
         \o SplitColon(SubSeq(toks, FirstColon(toks) + 1, Len(toks)),
                       maxsplit - 1)

\* int(signal), lines 97-100: the number, or 0 when int() raises
IntOrZero(str) ==
    CASE str = "10" -> 10 [] str = "40" -> 40 [] str = "55" -> 55
      [] str = "70" -> 70 [] OTHER -> 0

\* lines 91-108 for one line: the record appended, if any
ParseLine(toks) ==
    LET parts == SplitColon(toks, 3)
    IN IF Len(parts) < 4 THEN <<>>
       ELSE << [ssid |-> IF parts[1] # "" THEN parts[1] ELSE "<hidden>",
                signal |-> IntOrZero(parts[2]),
                security |-> IF parts[3] # "" THEN parts[3] ELSE "OPEN",
                bssid |-> parts[4]] >>

RECURSIVE ParseLines(_)
ParseLines(lines) ==
    IF lines = <<>> THEN <<>>
    ELSE ParseLine(Head(lines)) \o ParseLines(Tail(lines))

\* list.sort(key = signal, reverse = True), line 110: stable, descending
RECURSIVE InsertBySignal(_, _)
InsertBySignal(sorted, n) ==
    IF sorted = <<>> THEN <<n>>
    ELSE IF Head(sorted).signal >= n.signal
         THEN <<Head(sorted)>> \o InsertBySignal(Tail(sorted), n)
         ELSE <<n>> \o sorted

RECURSIVE SortBySignal(_)
SortBySignal(ns) ==
    IF ns = <<>> THEN <<>>
    ELSE InsertBySignal(SortBySignal(SubSeq(ns, 1, Len(ns) - 1)), ns[Len(ns)])

CommandFailed == <<<<"failed">>>>

\* variant: a short line ends the parsing of the output
ParseOutputStopsAtShortLine(out) ==
    IF out = CommandFailed THEN <<>>
    ELSE LET short == { i \in 1..Len(out) : Len(SplitColon(out[i], 3)) < 4 }
             upto == IF short = {} THEN Len(out)
                     ELSE (CHOOSE i \in short : \A j \in short : i <= j) - 1
         IN SortBySignal(ParseLines(SubSeq(out, 1, upto)))

\* scan_nmcli, lines 77-111, for one outcome of the command
ParseOutput(out) ==
    IF out = CommandFailed THEN <<>>
    ELSE SortBySignal(ParseLines(out))

LineA40 == <<"home", ":", "40", ":", "WPA2", ":", "AA", ":", "BB">>
LineA70 == <<"home2", ":", "70", ":", "WPA2", ":", "AA", ":", "BB">>
LineB == <<"cafe", ":", "55", ":", ":", "CC", ":", "DD">>
LineNoAddr == <<":", "10", ":", ":">>
LineShort == <<"cafe", ":", "55">>
LineBadSignal == <<"lab", ":", "n/a", ":", "WPA2", ":", "CC", ":", "DD">>
LineColonInName == <<"my\\", ":", "net", ":", "40", ":", "WPA2", ":", "EE", ":", "FF">>

\* What the command can print, and its failure
NmcliOutputs ==
    { CommandFailed, <<>>, <<LineA40>>, <<LineB, LineA70>>,
      <<LineNoAddr, LineB>>, <<LineShort, LineA40, LineB>>,
      <<LineA40, LineShort, LineBadSignal>>, <<LineColonInName, LineB>> }

\* update_discovered, lines 113-132, with the exception a record without
\* an expected key raises: the records before it are merged, an existing
\* entry is assigned field by field up to the missing key.
MergeOneOrRaise(disc, n, ts) ==
    IF "bssid" \notin DOMAIN n \/ n.bssid = ""
    THEN [raised |-> FALSE, discovered |-> disc]
    ELSE IF {"ssid", "signal", "security"} \subseteq DOMAIN n
    THEN [raised |-> FALSE, discovered |-> MergeOne(disc, n, ts)]
    ELSE IF n.bssid \notin DOMAIN disc \/ "ssid" \notin DOMAIN n
    THEN [raised |-> TRUE, discovered |-> disc]
    ELSE LET e0 == disc[n.bssid]
             e1 == [e0 EXCEPT !.ssid = n.ssid, !.last_seen = ts]
             e2 == IF "signal" \in DOMAIN n
                   THEN [e1 EXCEPT !.last_signal = n.signal] ELSE e1
         IN [raised |-> TRUE, discovered |-> Put(disc, n.bssid, e2)]

RECURSIVE UpdateDiscoveredCall(_, _, _)
UpdateDiscoveredCall(disc, batch, ts) ==
    IF batch = <<>> THEN [raised |-> FALSE, discovered |-> disc]
    ELSE LET r == MergeOneOrRaise(disc, Head(batch), ts)
         IN IF r.raised THEN r
            ELSE UpdateDiscoveredCall(r.discovered, Tail(batch), ts)

\* Batches handed to update_discovered by a caller other than the loop
NoSsid == [signal |-> 40, security |-> "WPA2", bssid |-> "AA:BB"]
NoSecurity == [ssid |-> "home", signal |-> 40, bssid |-> "AA:BB"]
NoBssidKey == [ssid |-> "home", signal |-> 40, security |-> "WPA2"]

DirectBatches ==
    { <<NetB, NetNoAddr, NetA40>>, <<NoBssidKey, NetB>>, <<NoSsid, NetB>>,
      <<NetB, NoSecurity>> }

ParseInit ==
    /\ LoopParked
    /\ title = TitleIdle
    /\ \E doc \in LoadedDocs :
         unit = [mode |-> "parse", clock |-> 0, steps |-> 0,
                 discovered |-> doc.discovered,
                 prevDiscovered |-> doc.discovered,
                 call |-> "none", out |-> <<>>, batch |-> <<>>,
                 raised |-> FALSE]

\* nets = scan_nmcli(); discovered = update_discovered(discovered, nets)
ParseAndMerge ==
    /\ unit.mode = "parse"
    /\ unit.steps < MaxStoreOps
    /\ \E out \in NmcliOutputs, dt \in 1..(MaxDrift + 1) :
         LET ns == ParseOutput(out)
             r == UpdateDiscoveredCall(unit.discovered, ns, unit.clock + dt)
         IN unit' = [unit EXCEPT
                !.clock = unit.clock + dt, !.steps = unit.steps + 1,
                !.prevDiscovered = unit.discovered,
                !.discovered = r.discovered, !.raised = r.raised,
                !.call = "scan", !.out = out, !.batch = ns]
    /\ UNCHANGED <<loopVars, title>>

\* update_discovered(discovered, batch) with records built by the caller
DirectMerge ==
    /\ unit.mode = "parse"
    /\ unit.steps < MaxStoreOps
    /\ ~unit.raised
    /\ \E batch \in DirectBatches, dt \in 1..(MaxDrift + 1) :
         LET r == UpdateDiscoveredCall(unit.discovered, batch,
                                       unit.clock + dt)
         IN unit' = [unit EXCEPT
                !.clock = unit.clock + dt, !.steps = unit.steps + 1,
                !.prevDiscovered = unit.discovered,
                !.discovered = r.discovered, !.raised = r.raised,
                !.call = "direct", !.out = <<>>, !.batch = batch]
    /\ UNCHANGED <<loopVars, title>>

ParseNext == ParseAndMerge \/ DirectMerge

ParseSpec == ParseInit /\ [][ParseNext]_vars

\* ----------------------------------------------------------------------
MergeCalled == unit.mode = "parse" /\ unit.steps >= 1

WellFormed(n) ==
    /\ {"ssid", "signal", "security", "bssid"} \subseteq DOMAIN n
    /\ n.bssid # ""

LongLines(out) ==
    IF out = CommandFailed THEN {}
    ELSE { i \in 1..Len(out) : Len(SplitColon(out[i], 3)) >= 4 }

\* every line with four fields has its record in the batch, and nothing else
ParsedAll ==
    unit.call = "scan" =>
        /\ Len(unit.batch) = Cardinality(LongLines(unit.out))
        /\ \A i \in LongLines(unit.out) :
             \E j \in 1..Len(unit.batch) :
                 unit.batch[j] = ParseLine(unit.out[i])[1]
        /\ \A j \in 1..(Len(unit.batch) - 1) :
             unit.batch[j].signal >= unit.batch[j + 1].signal

\* every well-formed record of the batch is in the store with this call's time
MergedAll ==
    \A j \in 1..Len(unit.batch) :
        WellFormed(unit.batch[j]) =>
            /\ unit.batch[j].bssid \in DOMAIN unit.discovered
            /\ unit.discovered[unit.batch[j].bssid].last_seen = unit.clock

\* C22 as stated: a scan line with too few fields and a record without a
\* hardware address or without another expected field are skipped, nothing
\* is raised, and every other record of the batch is parsed and merged.
C22_Original ==
    MergeCalled => ~unit.raised /\ ParsedAll /\ MergedAll

\* what holds for the batches scan_nmcli itself builds
C22_ScanBatches ==
    (MergeCalled /\ unit.call = "scan") =>
        ~unit.raised /\ ParsedAll /\ MergedAll

C22_WitnessRaised ==
    /\ MergeCalled
    /\ unit.call = "direct"
    /\ unit.raised
    /\ unit.batch = <<NoSsid, NetB>>
    /\ "CC:DD" \notin DOMAIN unit.discovered

C22_WitnessSkipped ==
    /\ MergeCalled
    /\ unit.call = "scan"
    /\ unit.out = <<LineShort, LineA40, LineB>>
    /\ unit.batch = <<[NetB EXCEPT !.security = "OPEN"], NetA40>>
    /\ DOMAIN unit.discovered = {"AA:BB", "CC:DD"}

\* ----------------------------------------------------------------------
\* A scan whose command fails
\* ----------------------------------------------------------------------
\* the documents this run found on disk
Loaded == CHOOSE doc \in env.docs : TRUE

FailedScanStep == "scan_nmcli" \in Range(ops') /\ nets' = <<>>

FailedAtStartup == AtStartup /\ nets = <<>>

\* C23 as stated: a scan whose command fails yields the empty list, the
\* loop goes on, and the discovered and lab stores are as they were before
\* the scan step.
C23_Original ==
    /\ [](FailedAtStartup =>
            /\ discovered = Loaded.discovered
            /\ lab_devices = Loaded.lab
            /\ running)
    /\ [][ FailedScanStep =>
            /\ discovered' = discovered
            /\ lab_devices' = lab_devices
            /\ running' = running /\ pc' # "done" ]_vars

\* C23: a scan whose command fails yields the empty list, the loop goes on,
\* the discovered store is as it was before the scan step, and the lab store
\* is as it was except for the default entries of discovered keys that had
\* none, which only the scan at startup can find.
C23_FailedScan ==
    /\ [](FailedAtStartup =>
            /\ discovered = Loaded.discovered
            /\ disk_discovered = discovered
            /\ lab_devices = DefaultsAdded(Loaded.discovered, Loaded.lab)
            /\ running)
    /\ [][ FailedScanStep =>
            /\ discovered' = discovered
            /\ disk_discovered' = discovered
            /\ lab_devices' = lab_devices
            /\ disk_lab' = disk_lab
            /\ running' = running /\ pc' # "done" ]_vars

C23_Witness ==
    /\ ManualScanDone
    /\ nets = <<>>
    /\ DOMAIN discovered = {"AA:BB", "CC:DD"}
    /\ lab_devices["CC:DD"].active
    /\ running
    /\ pc = "events"

C23_WitnessStartup ==
    /\ FailedAtStartup
    /\ Loaded.lab = EmptyStore
    /\ DOMAIN lab_devices = {"CC:DD"}
    /\ discovered = Loaded.discovered

\* ----------------------------------------------------------------------
\* The animated title, character by character
\* ----------------------------------------------------------------------
\* C24: the string _animate_title_text returns is as long as full_text;
\* every position below progress and every position of a space holds the
\* character of full_text; every other position holds a character of
\* JAP_CHARS, which has no space.
C24_TitleCharacters ==
    TitleCalled =>
        /\ title.out.err = "none"
        /\ Len(title.out.text) = Len(title.full_text)
        /\ title.out.progress \in 0..Len(title.full_text)
        /\ " " \notin Range(JAP_CHARS)
        /\ \A i \in 1..Len(title.full_text) :
             IF i - 1 < title.out.progress \/ title.full_text[i] = " "
             THEN title.out.text[i] = title.full_text[i]
             ELSE /\ title.out.text[i] \in Range(JAP_CHARS)
                  /\ title.out.text[i] # " "

C24_Witness ==
    /\ TitleCalled
    /\ title.full_text = <<"A", " ", "B">>
    /\ title.out.progress = 1
    /\ title.out.text = <<"A", " ", "A">>

\* ======================================================================
\* header.py: the reveal timestamps and the color of each title character
\* ======================================================================
WHITE == <<255, 255, 255>>
BLUE == <<0, 160, 255>>

\* Time of this part is counted in ticks of 0.04 s, the largest unit in
\* which FLASH_TIME (0.12 s), FADE_TIME (0.6 s) and a second are whole.
FLASH_TIME == 3
FADE_TIME == 15
Ticks(seconds) == 25 * seconds

\* _REVEAL_TIMESTAMPS = {}, line 34
NoTimestamps == [i \in {} |-> 0]

\* variant: only a change of the title clears the timestamps
ResetOnTitleOnly(full_text, progress, st) ==
    LET clear == full_text # st.lastTitle
    IN [ts |-> IF clear THEN NoTimestamps ELSE st.ts,
        lastTitle |-> IF clear THEN full_text ELSE st.lastTitle,
        lastProgress |-> progress]

\* _reset_reveal_state_if_needed, lines 107-113.  st holds the three module
\* globals _REVEAL_TIMESTAMPS, _LAST_TITLE and _LAST_PROGRESS.
_reset_reveal_state_if_needed(full_text, progress, st) ==
    LET clear == full_text # st.lastTitle \/ progress < st.lastProgress
    IN [ts |-> IF clear THEN NoTimestamps ELSE st.ts,
        lastTitle |-> IF clear THEN full_text ELSE st.lastTitle,
        lastProgress |-> progress]

\* dict assignment d[k] = v
SetItem(d, k, v) == [j \in DOMAIN d \cup {k} |-> IF j = k THEN v ELSE d[j]]

\* variant: the timestamp of a revealed character is written on every frame
CharColorRestamps(index, progress, base_color, at, stamps) ==
    IF index >= progress THEN [color |-> base_color, ts |-> stamps]
    ELSE [color |-> WHITE, ts |-> SetItem(stamps, index, at)]

\* variant: the fade starts from the pulsing color of the hidden characters
CharColorFadesFromBase(index, progress, base_color, at, stamps) ==
    IF index >= progress THEN [color |-> base_color, ts |-> stamps]
    ELSE LET known == index \in DOMAIN stamps
             ts == IF known THEN stamps[index] ELSE at
             after == IF known THEN stamps ELSE SetItem(stamps, index, ts)
             elapsed == at - ts
         IN IF elapsed < FLASH_TIME THEN [color |-> WHITE, ts |-> after]
            ELSE [color |-> _lerp_color(base_color, BLUE,
                                        elapsed - FLASH_TIME, FADE_TIME),
                  ts |-> after]

\* _char_color, lines 115-131.  stamps is _REVEAL_TIMESTAMPS before the call;
\* the result is the color returned and _REVEAL_TIMESTAMPS after the call.
_char_color(index, progress, base_color, at, stamps) ==
    IF index >= progress THEN [color |-> base_color, ts |-> stamps]
    ELSE LET known == index \in DOMAIN stamps
             ts == IF known THEN stamps[index] ELSE at
             after == IF known THEN stamps ELSE SetItem(stamps, index, ts)
             elapsed == at - ts
         IN IF elapsed < FLASH_TIME THEN [color |-> WHITE, ts |-> after]
            ELSE [color |-> _lerp_color(GREEN, BLUE,
                                        elapsed - FLASH_TIME, FADE_TIME),
                  ts |-> after]

\* draw_header, lines 178 and 38-58: the progress _animate_title_text
\* returns, with the cycle measured in ticks.
HeaderProgress(full_text, cycle_elapsed, scan_interval) ==
    LET period == Ticks(scan_interval)
        reveal == period - Ticks(1)
        length == Len(full_text)
    IN IF Degenerate(scan_interval) THEN length
       ELSE LET cycle_t == CycleT(cycle_elapsed, period, reveal)
            IN IF cycle_t >= reveal THEN length
               ELSE IF length = 0 THEN 0
               ELSE RevealProgress(cycle_t, reveal, length)

\* draw_header, lines 180-189: BLUE in the last second of the cycle,
\* otherwise the pulsing green (0, g_val, 0).
BaseTitleColor(cycle_elapsed, scan_interval, g_val) ==
    LET period == Ticks(scan_interval)
        reveal == period - Ticks(1)
    IN IF PyMod(cycle_elapsed, period) >= reveal THEN BLUE
       ELSE <<0, g_val, 0>>

\* draw_header, lines 196-200: the loop over the characters, from idx on.
RECURSIVE TitleColors(_, _, _, _, _, _)
TitleColors(idx, length, progress, base_color, at, acc) ==
    IF idx >= length THEN acc
    ELSE LET r == _char_color(idx, progress, base_color, at, acc.ts)
         IN TitleColors(idx + 1, length, progress, base_color, at,
                        [ts |-> r.ts, colors |-> Append(acc.colors, r.color)])

\* draw_header, lines 177-200, when scanning is false.
DrawTitle(title_text, at, started, scan_interval, g_val, st) ==
    LET cycle_elapsed == at - started
        progress == HeaderProgress(title_text, cycle_elapsed, scan_interval)
        base_color == BaseTitleColor(cycle_elapsed, scan_interval, g_val)
        reset == _reset_reveal_state_if_needed(title_text, progress, st)
        drawn == TitleColors(0, Len(title_text), progress, base_color, at,
                             [ts |-> reset.ts, colors |-> <<>>])
    IN [ts |-> drawn.ts, lastTitle |-> reset.lastTitle,
        lastProgress |-> reset.lastProgress, progress |-> progress,
        colors |-> drawn.colors, base |-> base_color]

\* draw_header, lines 177-200, for any scan_interval: line 182 computes
\* cycle_elapsed % float(scan_interval), which raises ZeroDivisionError
\* when scan_interval is 0, after _animate_title_text has returned and
\* before anything is drawn or the reveal state is touched.
DrawHeaderTitle(title_text, at, started, scan_interval, g_val, st) ==
    IF Ticks(scan_interval) = 0
    THEN [err |-> "ZeroDivisionError", ts |-> st.ts,
          lastTitle |-> st.lastTitle, lastProgress |-> st.lastProgress,
          progress |-> HeaderProgress(title_text, at - started, scan_interval),
          colors |-> <<>>]
    ELSE LET r == DrawTitle(title_text, at, started, scan_interval, g_val, st)
         IN [err |-> "none", ts |-> r.ts, lastTitle |-> r.lastTitle,
             lastProgress |-> r.lastProgress, progress |-> r.progress,
             colors |-> r.colors]

\* Inputs of the frames: two titles of different length, cycles of two
\* seconds and the degenerate cycles of one, zero and minus one second, the
\* two ends of the pulse, and the time between two frames.
RevealTitles == { <<"A", "B">>, <<"~", "/", "M">> }
RevealIntervals == {0 - 1, 0, 1, 2}
PulseGreens == {150, 255}
FrameSteps == {1, FLASH_TIME, FADE_TIME}

RevealState ==
    [ts |-> unit.ts, lastTitle |-> unit.lastTitle,
     lastProgress |-> unit.lastProgress]

\* Module import: no timestamp, _LAST_TITLE = "", _LAST_PROGRESS = 0.
RevealInit ==
    /\ LoopParked
    /\ title = TitleIdle
    /\ \E L \in RevealIntervals :
          unit = [mode |-> "reveal", scan_interval |-> L, now |-> 0,
                  cycle_start |-> 0, ts |-> NoTimestamps, lastTitle |-> <<>>,
                  lastProgress |-> 0, kind |-> "none", title_text |-> <<>>,
                  progress |-> 0, colors |-> <<>>, why |-> "none",
                  had |-> FALSE]

\* draw_header of a frame that is not scanning.
DrawHeader ==
    /\ unit.mode = "reveal"
    /\ \E d \in FrameSteps, x \in RevealTitles, g \in PulseGreens :
          /\ unit.now + d <= MaxRevealTime
          /\ LET r == DrawHeaderTitle(x, unit.now + d, unit.cycle_start,
                                      unit.scan_interval, g, RevealState)
                 differs == x # unit.lastTitle
                 lower == r.progress < unit.lastProgress
             IN unit' = [unit EXCEPT
                           !.now = unit.now + d, !.ts = r.ts,
                           !.lastTitle = r.lastTitle,
                           !.lastProgress = r.lastProgress,
                           !.kind = IF r.err = "none" THEN "draw"
                                    ELSE "raised",
                           !.title_text = x,
                           !.progress = r.progress, !.colors = r.colors,
                           !.why = IF differs /\ lower THEN "both"
                                   ELSE IF differs THEN "title"
                                   ELSE IF lower THEN "progress"
                                   ELSE "none",
                           !.had = (DOMAIN unit.ts # {})]
    /\ UNCHANGED <<loopVars, title>>

\* draw_header of a scanning frame, lines 149-175: the whole title in BLUE,
\* and the early return.
DrawHeaderScanning ==
    /\ unit.mode = "reveal"
    /\ \E d \in FrameSteps, x \in RevealTitles :
          /\ unit.now + d <= MaxRevealTime
          /\ unit' = [unit EXCEPT
                        !.now = unit.now + d, !.kind = "scan",
                        !.title_text = x,
                        !.colors = [i \in 1..Len(x) |-> BLUE],
                        !.why = "none", !.had = (DOMAIN unit.ts # {})]
    /\ UNCHANGED <<loopVars, title>>

\* matrix_console.py: the caller restarts the cycle (cycle_start = now after
\* a scan or a rescan key).
NewCycle ==
    /\ unit.mode = "reveal"
    /\ unit.cycle_start # unit.now
    /\ unit' = [unit EXCEPT !.cycle_start = unit.now]
    /\ UNCHANGED <<loopVars, title>>

RevealNext == DrawHeader \/ DrawHeaderScanning \/ NewCycle

RevealSpec == RevealInit /\ [][RevealNext]_vars

\* ----------------------------------------------------------- properties
\* A step that draws the header of a frame that is not scanning.
RevealFrameStep ==
    /\ unit.mode = "reveal" /\ unit'.mode = "reveal"
    /\ unit'.now > unit.now
    /\ unit'.kind = "draw"

TitleIndices(u) == 0..(Len(u.title_text) - 1)

\* C25: only indices below the progress of the last drawn frame hold a
\* timestamp; and on a frame that is not scanning, with the title of the
\* frame drawn before and a progress that is not lower, an index without a
\* timestamp receives the time of the frame exactly when it is below the
\* progress, and a timestamp already held is kept as it is.
C25_RevealTimestamps ==
    /\ [](unit.mode = "reveal" =>
            \A i \in DOMAIN unit.ts : 0 <= i /\ i < unit.lastProgress)
    /\ [][(/\ RevealFrameStep
           /\ unit'.title_text = unit.lastTitle
           /\ unit'.progress >= unit.lastProgress) =>
            /\ DOMAIN unit'.ts \subseteq TitleIndices(unit')
            /\ \A i \in TitleIndices(unit') :
                 /\ i \in DOMAIN unit.ts =>
                       (i \in DOMAIN unit'.ts /\ unit'.ts[i] = unit.ts[i])
                 /\ (i \notin DOMAIN unit.ts /\ i < unit'.progress) =>
                       (i \in DOMAIN unit'.ts /\ unit'.ts[i] = unit'.now)
                 /\ i >= unit'.progress => i \notin DOMAIN unit'.ts]_vars

C25_Witness ==
    /\ unit.mode = "reveal" /\ unit.kind = "draw"
    /\ unit.why = "none" /\ unit.had
    /\ \E i, j \in DOMAIN unit.ts :
          unit.ts[i] < unit.now /\ unit.ts[j] = unit.now
    /\ unit.progress < Len(unit.title_text)

\* C26: on a frame that is not scanning, whose title differs from the title
\* of the frame drawn before or whose progress is lower than the progress of
\* that frame, the timestamps are cleared before a character is colored:
\* after the frame exactly the indices below the progress hold a timestamp,
\* each is the time of this frame, and each of these characters is drawn in
\* the flash color.
C26_ClearedOnRestart ==
    [][(/\ RevealFrameStep
        /\ \/ unit'.title_text # unit.lastTitle
           \/ unit'.progress < unit.lastProgress) =>
         /\ DOMAIN unit'.ts =
               {i \in TitleIndices(unit') : i < unit'.progress}
         /\ \A i \in DOMAIN unit'.ts :
               unit'.ts[i] = unit'.now /\ unit'.colors[i + 1] = WHITE
         /\ unit'.lastTitle = unit'.title_text
         /\ unit'.lastProgress = unit'.progress]_vars

C26_Witness ==
    /\ unit.mode = "reveal" /\ unit.kind = "draw"
    /\ unit.why = "progress" /\ unit.had
    /\ unit.progress > 0
    /\ unit.cycle_start > 0

C26_WitnessTitle ==
    /\ unit.mode = "reveal" /\ unit.kind = "draw"
    /\ unit.why = "title" /\ unit.had
    /\ unit.progress > 0

\* C27: a character below the progress is drawn WHITE while less than
\* FLASH_TIME has passed since its timestamp, then in the color at fraction
\* (elapsed - FLASH_TIME) / FADE_TIME of the way from GREEN to BLUE, which is
\* GREEN when the flash ends, and in BLUE once FLASH_TIME + FADE_TIME has
\* passed.
C27_FlashThenFade ==
    (unit.mode = "reveal" /\ unit.kind = "draw") =>
        \A i \in TitleIndices(unit) :
            i < unit.progress =>
                /\ i \in DOMAIN unit.ts
                /\ LET elapsed == unit.now - unit.ts[i]
                       c == unit.colors[i + 1]
                   IN /\ elapsed < FLASH_TIME => c = WHITE
                      /\ elapsed = FLASH_TIME => c = GREEN
                      /\ (/\ FLASH_TIME <= elapsed
                          /\ elapsed < FLASH_TIME + FADE_TIME) =>
                            OnSegment(c, GREEN, BLUE, elapsed - FLASH_TIME,
                                      FADE_TIME)
                      /\ elapsed >= FLASH_TIME + FADE_TIME => c = BLUE

C27_Witness ==
    /\ unit.mode = "reveal" /\ unit.kind = "draw"
    /\ \E i, j, k \in DOMAIN unit.ts :
          /\ unit.now - unit.ts[i] < FLASH_TIME
          /\ unit.colors[i + 1] = WHITE
          /\ unit.now - unit.ts[j] > FLASH_TIME
          /\ unit.now - unit.ts[j] < FLASH_TIME + FADE_TIME
          /\ unit.colors[j + 1] \notin {WHITE, GREEN, BLUE}
          /\ unit.now - unit.ts[k] >= FLASH_TIME + FADE_TIME
          /\ unit.colors[k + 1] = BLUE

\* ----------------------------------------------------------------------
\* The footer: the dwell time of the slow fields
\* ----------------------------------------------------------------------
FooterDrawn == unit.mode = "footer" /\ unit.frames >= 1 /\ ~unit.edited

\* C28: _refresh_state queries the public address and the geolocation
\* exactly when DYNAMIC_INTERVAL has passed since last_refresh, and then
\* sets last_refresh to the clock it read; otherwise the two fields and
\* last_refresh are left as they were, so two slow refreshes are at least
\* DYNAMIC_INTERVAL apart; the time field is the local time of every call.
C28_DwellTime ==
    FooterDrawn =>
        /\ unit.slow = (unit.clock - unit.before.last_refresh
                           >= DYNAMIC_INTERVAL)
        /\ unit.slow =>
              /\ unit.st.last_refresh = unit.clock
              /\ unit.st.last_refresh - unit.before.last_refresh
                    >= DYNAMIC_INTERVAL
        /\ ~unit.slow =>
              /\ unit.st.last_refresh = unit.before.last_refresh
              /\ unit.st.public_ip = unit.before.public_ip
              /\ unit.st.geo = unit.before.geo
        /\ unit.st.time = _get_local_time(unit.clock)

\* the second slow refresh of a run, with new values for both fields
C28_Witness ==
    /\ FooterDrawn
    /\ unit.slow
    /\ unit.before.last_refresh >= DYNAMIC_INTERVAL
    /\ unit.st.public_ip # unit.before.public_ip
    /\ unit.st.geo # unit.before.geo

C28_WitnessTooEarly ==
    /\ FooterDrawn
    /\ ~unit.slow
    /\ unit.before.last_refresh >= DYNAMIC_INTERVAL
    /\ unit.clock - unit.before.last_refresh = DYNAMIC_INTERVAL - 1
    /\ unit.st.time # <<"0">>

\* ----------------------------------------------------------------------
\* The footer: the cached surface
\* ----------------------------------------------------------------------
\* C29: after a draw_footer call that draws a ticker, the text recorded as
\* last rendered is ticker_text, the cached surface is the surface rendered
\* from ticker_text, and the surface that was drawn is that surface.
C29_CachedSurface ==
    (FooterDrawn /\ ~unit.drawn.none) =>
        /\ unit.st.last_rendered_text = unit.st.ticker_text
        /\ unit.st.last_rendered_surface = Render(unit.st.ticker_text)
        /\ unit.drawn = unit.st.last_rendered_surface
        /\ unit.drawn.text = unit.st.ticker_text

\* a frame that draws the cached surface of the frame before
C29_Witness ==
    /\ FooterDrawn /\ unit.frames = 2
    /\ ~unit.drawn.none
    /\ unit.renders = 0
    /\ unit.prevText = unit.st.ticker_text

\* a frame whose text differs from the text rendered before
C29_WitnessRerender ==
    /\ FooterDrawn /\ unit.frames = 2
    /\ ~unit.drawn.none
    /\ unit.renders = 1
    /\ unit.prevText # unit.st.ticker_text
    /\ unit.prevText # <<>>

\* ----------------------------------------------------------------------
\* type_sentence: the text on display
\* ----------------------------------------------------------------------
Typing == unit.mode = "typing"

Prefix(str, n) == SubSeq(str, 1, n)

\* the characters among the first n of the sentence that are not a space
NonSpaces(str, n) == Cardinality({k \in 1..n : str[k] # " "})

\* C30: while type_sentence runs the text on display is the first i
\* characters of the sentence, or these followed by one character of
\* MISTAKE_CHARS, typed where the next character is not a space, so its
\* length is between 0 and the length of the sentence; the length decreases
\* only by the removal of the wrong character just typed; a wrong character
\* is typed at most once before each character and is removed before that
\* character is appended; the text returned is the sentence.
C30_DisplayedText ==
    /\ [](Typing =>
            /\ unit.rendered = Len(unit.txt)
            /\ Len(unit.txt) \in 0..Len(unit.sentence)
            /\ unit.tpc # "wrong" => unit.txt = Prefix(unit.sentence, unit.i)
            /\ unit.tpc = "wrong" =>
                  /\ unit.i < Len(unit.sentence)
                  /\ Len(unit.txt) = unit.i + 1
                  /\ Prefix(unit.txt, unit.i) = Prefix(unit.sentence, unit.i)
                  /\ unit.txt[unit.i + 1] \in MISTAKE_CHARS
                  /\ unit.sentence[unit.i + 1] # " "
            /\ unit.mistakeDelays <=
                  2 * NonSpaces(unit.sentence,
                                IF unit.tpc \in {"wrong", "erased"}
                                THEN unit.i + 1 ELSE unit.i)
            /\ unit.tpc = "done" => unit.typed = unit.sentence)
    /\ [][(Typing /\ unit'.txt # unit.txt) =>
            /\ Len(unit'.txt) < Len(unit.txt) =>
                  /\ unit.tpc = "wrong" /\ unit'.tpc = "erased"
                  /\ unit'.txt = Prefix(unit.txt, Len(unit.txt) - 1)
            /\ unit.tpc = "wrong" => Len(unit'.txt) < Len(unit.txt)
            /\ unit.tpc = "erased" =>
                  /\ unit'.txt = Append(unit.txt, unit.sentence[unit.i + 1])
                  /\ unit'.tpc = "char"
            /\ Len(unit'.txt) > Len(unit.txt) =>
                  Len(unit'.txt) = Len(unit.txt) + 1]_vars

\* a sentence returned after two wrong characters were typed and removed
C30_Witness ==
    /\ Typing
    /\ unit.tpc = "done"
    /\ unit.typed = Sentence(TypeLen)
    /\ unit.mistakeDelays >= 4

\* a wrong character on display
C30_WitnessWrong ==
    /\ Typing
    /\ unit.tpc = "wrong"
    /\ unit.i >= 1
    /\ unit.txt # Prefix(unit.sentence, unit.i + 1)

\* ======================================================================
\* The movie line of the console
\* ======================================================================
\* The step just taken performed a scan (at a tick or for a rescan key).
ScanInStep == "scan_nmcli" \in Range(ops')

TickStep == pc = "tick" /\ pc' = "events"

\* C31: the visible count of the movie line is never above the length of
\* the current quote; it grows by one at most, only in the typing step of a
\* tick at which MOVIE_TYPE_DELAY has passed since last_movie_type_time,
\* which never goes back and is then set to the time of the tick; the quote
\* is chosen anew exactly in the steps that complete a scan, and the count
\* is 0 after exactly these steps and changes in no other way.
C31_MovieLine ==
    /\ [](/\ movie_visible_len >= 0
          /\ movie_visible_len <= Len(current_movie_line))
    /\ [][/\ last_movie_type_time' >= last_movie_type_time
          /\ movie_visible_len' > movie_visible_len =>
                /\ TickStep /\ ~ScanInStep
                /\ movie_visible_len' = movie_visible_len + 1
                /\ (now' - last_movie_type_time) * 100 >= MOVIE_TYPE_DELAY_CS
                /\ last_movie_type_time' = now'
          /\ movie_visible_len' < movie_visible_len =>
                ScanInStep /\ movie_visible_len' = 0
          /\ current_movie_line' # current_movie_line => ScanInStep
          /\ ScanInStep =>
                /\ movie_visible_len' = 0
                /\ current_movie_line' \in get_movie_line
                /\ Count(ops', "scan_nmcli") = 1]_vars

\* an automatic scan after the first quote was typed out selects the other
\* quote, of which nothing is shown
C31_Witness ==
    /\ AutoScanDone
    /\ current_movie_line = Chars(3)
    /\ movie_visible_len = 0
    /\ last_movie_type_time = now
    /\ env.lines = LINES

\* a quote typed to its end, after a rescan key
C31_WitnessTyped ==
    /\ hist.kind = "manual"
    /\ pc = "events"
    /\ ops = <<"draw_console">>
    /\ current_movie_line = Chars(3)
    /\ movie_visible_len = 3

\* ======================================================================
\* The quit key
\* ======================================================================
StoresUnchanged ==
    /\ discovered' = discovered /\ lab_devices' = lab_devices
    /\ disk_discovered' = disk_discovered /\ disk_lab' = disk_lab

\* C32 as stated: once a quit key has been handled no scan is performed and
\* no store or document changes, also for the events that follow the quit
\* key in the same batch.
C32_Original ==
    [][~running => (~ScanInStep /\ StoresUnchanged)]_vars

\* C32: a quit key clears the running flag for good; the events that follow
\* it in the same batch are handled like any other (a rescan key scans,
\* merges and saves, a click on a row toggles and saves); when the batch is
\* exhausted the loop ends, so no tick follows: no automatic scan, no typing
\* and no frame, and nothing changes once the loop has ended.
C32_QuitEndsLoop ==
    /\ [](/\ ops = <<"quit">> => ~running
          /\ ~running => pc \in {"events", "done"}
          /\ pc = "done" => ~running)
    /\ [][/\ ~running => (~running' /\ ~TickStep)
          /\ (~running /\ pc' # pc) => (pc = "events" /\ pc' = "done")
          /\ (~running /\ (ScanInStep \/ ~StoresUnchanged)) =>
                (pc = "events" /\ pc' = "events" /\ handled' = handled + 1)
          /\ pc # "done"]_vars

\* a rescan key handled after the quit key of the same batch
C32_Witness ==
    /\ ~running
    /\ pc = "events"
    /\ ManualScanDone
    /\ handled = 2

\* the loop has ended after such a batch
C32_WitnessEnded ==
    /\ pc = "done"
    /\ hist.kind = "manual"
    /\ hist.doneAt = clock
    /\ now < clock

\* ======================================================================
\* draw_header with a degenerate scan interval
\* ======================================================================
HeaderCalled == unit.mode = "reveal" /\ unit.kind \in {"draw", "raised"}

FullyRevealed ==
    /\ unit.kind = "draw"
    /\ unit.progress = Len(unit.title_text)
    /\ Len(unit.colors) = Len(unit.title_text)
    /\ DOMAIN unit.ts = TitleIndices(unit)

\* C33: for a scan_interval of at most 1, 0 included, the path of
\* draw_header that is not scanning raises no arithmetic error and draws the
\* title with every character revealed.
C33_Original ==
    (HeaderCalled /\ unit.scan_interval <= 1) => FullyRevealed

\* what holds: every scan_interval of at most 1 other than 0
C33_DegenerateNonZero ==
    (HeaderCalled /\ unit.scan_interval <= 1) =>
        IF unit.scan_interval = 0
        THEN unit.kind = "raised" /\ unit.colors = <<>>
        ELSE FullyRevealed /\ unit.lastProgress = Len(unit.title_text)

C33_WitnessRaised ==
    /\ HeaderCalled /\ unit.scan_interval = 0 /\ unit.kind = "raised"
    /\ unit.progress = Len(unit.title_text)

C33_WitnessNegative ==
    /\ HeaderCalled /\ unit.scan_interval < 0 /\ FullyRevealed
    /\ unit.now > unit.cycle_start

\* ======================================================================
\* The ticker keeps moving
\* ======================================================================
\* C34: for every positive tick_speed, below one pixel included, no frame
\* of draw_footer leaves the ticker where it was (a frame that does would
\* repeat for ever, the width and the speed being the same, and the wrap
\* would never be reached again).
C34_Original ==
    (ScrollDone /\ unit.tick_speed > 0) => unit.ticker_x # unit.prevX

\* what holds: with a speed of at least one pixel every frame moves the
\* ticker to the left or wraps it to the viewport width
C34_WholePixelSpeeds ==
    (ScrollDone /\ unit.tick_speed >= PosDen) =>
        \/ unit.ticker_x < unit.prevX
        \/ /\ unit.ticker_x = unit.screen_width * PosDen
           /\ Target < 0 - unit.width * PosDen

\* the ticker at rest just left of the origin, with a speed below one pixel
C34_WitnessStuck ==
    /\ ScrollDone /\ unit.frames = 2
    /\ unit.tick_speed < PosDen
    /\ unit.prevX < 0
    /\ unit.ticker_x = unit.prevX

\* ======================================================================
\* matrix_main.py: the launcher
\* ======================================================================
INTRO == "wake_up_neo_intro_backup.py"
RAIN == "matrix_rain_only.py"
CONSOLE == "matrix_console.py"

Scripts == {INTRO, RAIN, CONSOLE}

\* build_chain, lines 41-51
build_chain(skip_intro, skip_rain, skip_console) ==
    (IF ~skip_intro THEN <<INTRO>> ELSE <<>>)
    \o (IF ~skip_rain THEN <<RAIN>> ELSE <<>>)
    \o (IF ~skip_console THEN <<CONSOLE>> ELSE <<>>)

\* validate_chain, lines 54-69; present is the set of scripts that exist
validate_chain(chain, present) ==
    \A i \in 1..Len(chain) : chain[i] \in present

\* What a stage can exit with: success, two error codes, death by a signal.
ExitCodes == {0, 1, 3, 0 - 9}

\* run_script, lines 19-38: a missing script is not started and gives 1; an
\* interrupted stage gives 1; otherwise the code the process exited with.
run_script(script_name, present, returncode, interrupted) ==
    IF script_name \notin present THEN [started |-> FALSE, code |-> 1]
    ELSE IF interrupted THEN [started |-> TRUE, code |-> 1]
    ELSE [started |-> TRUE, code |-> returncode]

\* variant: the chain goes on after a stage that failed
ChainStepIgnoresFailure(code, idx, length) ==
    IF idx = length THEN [done |-> TRUE, ret |-> code, idx |-> idx]
    ELSE [done |-> FALSE, ret |-> 0, idx |-> idx + 1]

\* chain_scripts, lines 84-94: after stage idx of length has given code,
\* return the code if it is not 0, go to the next stage, or return 0 after
\* the last one.
ChainStep(code, idx, length) ==
    IF code # 0 THEN [done |-> TRUE, ret |-> code, idx |-> idx]
    ELSE IF idx = length THEN [done |-> TRUE, ret |-> 0, idx |-> idx]
    ELSE [done |-> FALSE, ret |-> 0, idx |-> idx + 1]

\* The launcher is called with its flags, in a directory that holds some of
\* the scripts.
LaunchInit ==
    /\ LoopParked
    /\ title = TitleIdle
    /\ \E si \in BOOLEAN, sr \in BOOLEAN, sc \in BOOLEAN,
          present \in SUBSET Scripts :
         unit = [mode |-> "launch", lpc |-> "main",
                 skip |-> <<si, sr, sc>>, present |-> present,
                 present0 |-> present, chain |-> <<>>, idx |-> 0,
                 started |-> <<>>, codes |-> <<>>, ret |-> 0,
                 removals |-> 0]

\* main, lines 115-129: build the chain, return 0 if it is empty and 1 if a
\* script of it is missing, otherwise run it.
LaunchMain ==
    /\ unit.mode = "launch"
    /\ unit.lpc = "main"
    /\ LET chain == build_chain(unit.skip[1], unit.skip[2], unit.skip[3])
       IN unit' = IF chain = <<>>
                  THEN [unit EXCEPT !.lpc = "done", !.ret = 0]
                  ELSE IF ~validate_chain(chain, unit.present)
                  THEN [unit EXCEPT !.lpc = "done", !.ret = 1,
                                    !.chain = chain]
                  ELSE [unit EXCEPT !.lpc = "chain", !.chain = chain,
                                    !.idx = 1]
    /\ UNCHANGED <<loopVars, title>>

\* chain_scripts, lines 84-94: one iteration of the loop over the chain.
RunStage ==
    /\ unit.mode = "launch"
    /\ unit.lpc = "chain"
    /\ \E returncode \in ExitCodes, interrupted \in BOOLEAN :
         LET r == run_script(unit.chain[unit.idx], unit.present, returncode,
                             interrupted)
             c == ChainStep(r.code, unit.idx, Len(unit.chain))
         IN unit' = [unit EXCEPT
                !.started = IF r.started
                            THEN Append(unit.started, unit.chain[unit.idx])
                            ELSE unit.started,
                !.codes = Append(unit.codes, r.code),
                !.idx = c.idx,
                !.ret = c.ret,
                !.lpc = IF c.done THEN "done" ELSE "chain"]
    /\ UNCHANGED <<loopVars, title>>

\* A script is removed from the directory while the chain runs.
RemoveScript ==
    /\ unit.mode = "launch"
    /\ unit.lpc = "chain"
    /\ unit.removals < MaxRemovals
    /\ \E sc \in unit.present :
         unit' = [unit EXCEPT !.present = unit.present \ {sc},
                              !.removals = unit.removals + 1]
    /\ UNCHANGED <<loopVars, title>>

LaunchNext == LaunchMain \/ RunStage \/ RemoveScript

LaunchSpec == LaunchInit /\ [][LaunchNext]_vars

\* ----------------------------------------------------------- properties
Launching == unit.mode = "launch"

AllStages == <<INTRO, RAIN, CONSOLE>>

\* the stages that are not skipped, in the order intro, rain, console
Wanted == SelectSeq(AllStages,
                    LAMBDA sc : \E k \in 1..3 : AllStages[k] = sc
                                                /\ ~unit.skip[k])

MissingAtStart == \E i \in 1..Len(Wanted) : Wanted[i] \notin unit.present0

\* C35: the stages started are an initial part of intro, rain, console
\* without the skipped ones; a stage is started only when every stage
\* before it has given 0; the first code that is not 0 ends the chain and is
\* what the launcher returns; if a script of a wanted stage is missing when
\* the launcher starts, no stage is started and the launcher returns 1; the
\* launcher returns 0 only after every wanted stage has given 0.
C35_LauncherOrder ==
    Launching =>
        /\ Len(unit.started) <= Len(Wanted)
        /\ unit.started = SubSeq(Wanted, 1, Len(unit.started))
        /\ Len(unit.started) <= Len(unit.codes)
        /\ \A i \in 1..Len(unit.codes) :
              /\ \A j \in 1..(i - 1) : unit.codes[j] = 0
              /\ unit.codes[i] # 0 =>
                    /\ i = Len(unit.codes)
                    /\ unit.lpc = "done"
                    /\ unit.ret = unit.codes[i]
        /\ (MissingAtStart /\ unit.lpc # "main") =>
              /\ unit.lpc = "done" /\ unit.ret = 1
              /\ unit.started = <<>> /\ unit.codes = <<>>
        /\ (unit.lpc = "done" /\ unit.ret = 0) =>
              /\ unit.started = Wanted
              /\ Len(unit.codes) = Len(Wanted)

\* the second of three stages exits with 3: the third is not started
C35_Witness ==
    /\ Launching /\ unit.lpc = "done"
    /\ Wanted = AllStages
    /\ unit.started = <<INTRO, RAIN>>
    /\ unit.codes = <<0, 3>>
    /\ unit.ret = 3

\* the console script is missing and the intro is skipped: nothing runs
C35_WitnessMissing ==
    /\ Launching /\ unit.lpc = "done"
    /\ Wanted = <<RAIN, CONSOLE>>
    /\ unit.present0 = {INTRO, RAIN}
    /\ unit.started = <<>>
    /\ unit.ret = 1

\* all three stages run and the launcher returns 0
C35_WitnessAll ==
    /\ Launching /\ unit.lpc = "done"
    /\ unit.started = AllStages
    /\ unit.ret = 0

====
